---- MODULE Spec2Model ----
(***************************************************************************)
(* TravelMate trip planner: the requirements / trip data models of         *)
(* api/datamodels.py, the data-access layer of db/db_utils.py, the CrewAI  *)
(* and AutoGen orchestrators and the REST endpoints of api/app.py.         *)
(*                                                                         *)
(* Conventions.                                                            *)
(*  - A Python Optional value is a sequence of length <= 1: None is <<>>   *)
(*    and a value x is <<x>>.                                              *)
(*  - A date is a day number; today is a day number as well.               *)
(*  - A row id is the position of the row in its table (AUTOINCREMENT).    *)
(***************************************************************************)
EXTENDS Integers, Sequences, FiniteSets, TLC

VARIABLES
    today,      \* date.today()
    trips,      \* table trips
    plans,      \* table trip_plans
    chat,       \* table chat_history
    ctx,        \* AutoGenTripOrchestrator._incomplete_context
    ret,        \* outcome of the last operation
    reqIn,      \* keyword arguments of a TripRequirements(...) construction
    reqOut,     \* what the construction (and to_trip_dict) produced
    tripIn,     \* keyword arguments of a Trip(...) construction
    tripOut,    \* what the construction produced
    planIn,     \* a TravelPlan, or the replies a plan is built from
    planOut,    \* what was made of it
    accIn,      \* an accommodation_type as given
    accOut      \* what the validators made of it

vars == <<today, trips, plans, chat, ctx, ret, reqIn, reqOut, tripIn, tripOut, planIn, planOut, accIn, accOut>>

(***************************************************************************)
(* Bounds                                                                  *)
(***************************************************************************)
MaxDay == 3
MaxToday == 1
MaxTrips == 2
MaxPlans == 2
MaxChat == 2
MaxCtx == 1
MaxVersion == 2
MaxRound == 3
MaxRows == 7

Days == 0..MaxDay

None == <<>>
Some(x) == <<x>>
OptOf(S) == {None} \cup {Some(x) : x \in S}
Range(q) == {q[i] : i \in 1..Len(q)}

(***************************************************************************)
(* api/datamodels.py : TripRequirements                                    *)
(***************************************************************************)

\* required_fields of auto_fix_and_validate, in the order of the source
required_fields ==
    <<"origin", "destination", "trip_startdate", "trip_enddate", "no_of_adults", "budget">>

\* Python truthiness of values.get(field) for the keyword arguments v
Truthy(v, field) ==
    CASE field \in {"origin", "destination"} -> v[field] # None /\ v[field][1] # ""
      [] field \in {"trip_startdate", "trip_enddate"} -> v[field] # None
      [] field = "no_of_adults" -> v.has_adults /\ v[field] # None /\ v[field][1] # 0
      [] field = "budget" -> v[field] # None /\ v[field][1] # 0

\* MissingOf with the budget check forgotten
MissingOf_NoBudget(v) ==
    SelectSeq(required_fields, LAMBDA f : f # "budget" /\ ~Truthy(v, f))

\* the list `missing` built by the loop over required_fields
MissingOf(v) == SelectSeq(required_fields, LAMBDA f : ~Truthy(v, f))

\* @model_validator(mode="before"): returns the (possibly repaired) values
auto_fix_and_validate(v) ==
    LET mode == IF v.mode = "absent" THEN "trip" ELSE v.mode
        w == [v EXCEPT !.mode = mode]
    IN  IF mode = "trip"
        THEN IF MissingOf(w) # <<>>
             THEN [w EXCEPT !.mode = "missing",
                            !.missing_fields = Some(MissingOf(w)),
                            !.error = Some("MISSING")]
             ELSE w
        ELSE IF mode = "missing"
        THEN [w EXCEPT !.missing_fields =
                           IF w.missing_fields = None \/ w.missing_fields = Some(<<>>)
                           THEN Some(<<"origin", "destination">>)
                           ELSE w.missing_fields,
                       !.error = Some("MISSING")]
        ELSE w

\* validate_dates without the mode test
validate_dates_raises_AnyMode(w) ==
    /\ w.trip_enddate # None
    /\ w.trip_startdate # None
    /\ w.trip_enddate[1] <= w.trip_startdate[1]

\* @field_validator("trip_enddate"): TRUE when it raises
validate_dates_raises(w) ==
    /\ w.mode = "trip"
    /\ w.trip_enddate # None
    /\ w.trip_startdate # None
    /\ w.trip_enddate[1] <= w.trip_startdate[1]

\* TripRequirements(**v) without validate_dates
TripRequirements_DatesUnchecked(v) ==
    LET w == auto_fix_and_validate(v)
    IN  [raised |-> w.mode \notin {"trip", "missing"},
         mode |-> w.mode,
         origin |-> w.origin,
         destination |-> w.destination,
         trip_startdate |-> w.trip_startdate,
         trip_enddate |-> w.trip_enddate,
         no_of_adults |-> IF w.has_adults THEN w.no_of_adults ELSE Some(1),
         no_of_children |-> w.no_of_children,
         budget |-> w.budget,
         error |-> w.error,
         missing_fields |-> w.missing_fields]

\* TripRequirements(**v): the before-validator, then the field validation
\* (mode is a Literal["trip", "missing"]; no_of_adults defaults to 1 when
\* the key is not given)
TripRequirements(v) ==
    LET w == auto_fix_and_validate(v)
        raised == w.mode \notin {"trip", "missing"} \/ validate_dates_raises(w)
    IN  [raised |-> raised,
         mode |-> w.mode,
         origin |-> w.origin,
         destination |-> w.destination,
         trip_startdate |-> w.trip_startdate,
         trip_enddate |-> w.trip_enddate,
         no_of_adults |-> IF w.has_adults THEN w.no_of_adults ELSE Some(1),
         no_of_children |-> w.no_of_children,
         budget |-> w.budget,
         error |-> w.error,
         missing_fields |-> w.missing_fields]

\* is_complete without the error test
is_complete_ModeOnly(r) == r.mode = "trip"

is_complete(r) == r.mode = "trip" /\ r.error = None

\* x or default, for an Optional number
OrDefault(x, d) == IF x = None \/ x[1] = 0 THEN d ELSE x[1]

\* to_trip_dict(user_id, phase): raises ValueError unless is_complete()
to_trip_dict(r, user_id, phase) ==
    [raised |-> ~is_complete(r),
     id |-> None,
     user_id |-> user_id,
     phase |-> phase,
     origin |-> r.origin,
     destination |-> r.destination,
     trip_startdate |-> r.trip_startdate,
     trip_enddate |-> r.trip_enddate,
     no_of_adults |-> OrDefault(r.no_of_adults, 1),
     no_of_children |-> r.no_of_children,
     budget |-> OrDefault(r.budget, 500),
     trip_status |-> "draft"]

(***************************************************************************)
(* api/datamodels.py : Trip                                                *)
(***************************************************************************)
Phases == {"phase1_langflow", "phase2_crewai", "phase3_autogen", "phase4_langgraph"}
TripStatuses == {"draft", "confirmed", "in_progress", "completed", "cancelled"}

\* validate_future_date without the exemption of trips that carry an id
validate_future_date_raises_NoExemption(d, now) ==
    d.trip_startdate[1] <= now

\* @field_validator("trip_startdate"): TRUE when it raises
validate_future_date_raises(d, now) ==
    d.id = None /\ d.trip_startdate[1] <= now

\* validate_dates with `<` for `<=`
Trip_validate_dates_raises_SameDayAllowed(d, startOk) ==
    startOk /\ d.trip_enddate[1] < d.trip_startdate[1]

\* @field_validator("trip_enddate"): TRUE when it raises; startOk says that
\* trip_startdate passed its own validation and so is in info.data
Trip_validate_dates_raises(d, startOk) ==
    startOk /\ d.trip_enddate[1] <= d.trip_startdate[1]

\* Trip(**d) without the validator of trip_startdate
TripRaises_StartUnchecked(d, now) ==
    \/ d.phase \notin Phases
    \/ d.origin = None
    \/ d.destination = None
    \/ d.trip_startdate = None
    \/ d.trip_enddate = None
    \/ Trip_validate_dates_raises(d, TRUE)
    \/ d.no_of_adults < 1
    \/ d.no_of_children < 0
    \/ d.budget < 0
    \/ d.trip_status \notin TripStatuses

\* Trip(**d) raises a ValidationError
TripRaises(d, now) ==
    LET startOk == d.trip_startdate # None /\ ~validate_future_date_raises(d, now)
    IN  \/ d.phase \notin Phases
        \/ d.origin = None
        \/ d.destination = None
        \/ ~startOk
        \/ d.trip_enddate = None
        \/ Trip_validate_dates_raises(d, startOk)
        \/ d.no_of_adults < 1
        \/ d.no_of_children < 0
        \/ d.budget < 0
        \/ d.trip_status \notin TripStatuses


(***************************************************************************)
(* What the language model replies with: JSON scalars.                     *)
(*   (key absent) | null | text | number | text holding a numeral | text   *)
(*   holding an ISO date.  Text that is a numeral or a date is kept apart  *)
(*   from other text because float(), int() and the date fields parse it.  *)
(***************************************************************************)
JAbsent == [t |-> "absent", s |-> "", n |-> 0]
JNull == [t |-> "null", s |-> "", n |-> 0]
JStr(x) == [t |-> "str", s |-> x, n |-> 0]
JNum(k) == [t |-> "num", s |-> "", n |-> k]
JNumStr(k) == [t |-> "numstr", s |-> "", n |-> k]
JDate(d) == [t |-> "date", s |-> "", n |-> d]

\* Python truthiness of a JSON scalar
JTruthy(j) ==
    CASE j.t \in {"absent", "null"} -> FALSE
      [] j.t = "str" -> j.s # ""
      [] j.t = "num" -> j.n # 0
      [] OTHER -> TRUE

\* pydantic's reading of a scalar for an Optional[str] / Optional[date] /
\* Optional[int|float] field; Bad (a pair) stands for a validation error
Bad == <<0, 0>>
IsBad(x) == Len(x) = 2
IsNull(j) == j.t \in {"absent", "null"}
AsStr(j) == IF IsNull(j) THEN None ELSE IF j.t = "str" THEN Some(j.s) ELSE Bad
AsDate(j) == IF IsNull(j) THEN None ELSE IF j.t = "date" THEN Some(j.n) ELSE Bad
AsNum(j) == IF IsNull(j) THEN None ELSE IF j.t \in {"num", "numstr"} THEN Some(j.n) ELSE Bad

\* TripRequirements(**data) for a dict of JSON scalars whose numbers are
\* already numbers: the type validation of each field, then the model
FromData(data) ==
    LET bad == \/ IsBad(AsStr(data.origin)) \/ IsBad(AsStr(data.destination))
               \/ IsBad(AsDate(data.trip_startdate)) \/ IsBad(AsDate(data.trip_enddate))
               \/ IsBad(AsNum(data.no_of_adults)) \/ IsBad(AsNum(data.budget))
               \/ data.no_of_children.t \notin {"absent", "num", "numstr"}
               \/ data.mode.t # "str"
        clean(x) == IF IsBad(x) THEN None ELSE x
        v == [mode |-> IF data.mode.t = "str" THEN data.mode.s ELSE "other",
              origin |-> clean(AsStr(data.origin)),
              destination |-> clean(AsStr(data.destination)),
              trip_startdate |-> clean(AsDate(data.trip_startdate)),
              trip_enddate |-> clean(AsDate(data.trip_enddate)),
              has_adults |-> data.no_of_adults.t # "absent",
              no_of_adults |-> clean(AsNum(data.no_of_adults)),
              no_of_children |-> data.no_of_children.n,
              budget |-> clean(AsNum(data.budget)),
              error |-> None,
              missing_fields |-> None]
        r == TripRequirements(v)
    IN  [r EXCEPT !.raised = r.raised \/ bad]

(***************************************************************************)
(* phases/phase2_crewai/trip_agents.py : info_collector                    *)
(***************************************************************************)
DataKeys ==
    {"mode", "origin", "destination", "trip_startdate", "trip_enddate",
     "no_of_adults", "no_of_children", "budget"}

\* all(data.get(k) for k in required), the five keys of lines 282 and 308
CrewCoreTruthy(data) ==
    \A k \in {"origin", "destination", "trip_startdate", "trip_enddate", "budget"} :
        JTruthy(data[k])

\* MODE NORMALIZATION
NormalizeMode(data) ==
    IF data.mode.t = "str" /\ data.mode.s \in {"trip", "missing"}
    THEN data
    ELSE [data EXCEPT !.mode = IF CrewCoreTruthy(data) THEN JStr("trip") ELSE JStr("missing")]

\* normalize blanks -> None
NormalizeBlanks(data) ==
    [k \in DataKeys |->
        IF data[k].t = "str" /\ data[k].s \in {"", "null", "undefined"}
        THEN JNull ELSE data[k]]

\* float(data["budget"]) when it is not None; None when float() fails
FixBudget(j) ==
    IF IsNull(j) THEN JNull
    ELSE IF j.t \in {"num", "numstr"} THEN JNum(j.n) ELSE JNull

\* int(data.get(key) or default), default when int() fails
FixCount(j, default) ==
    IF ~JTruthy(j) THEN JNum(default)
    ELSE IF j.t \in {"num", "numstr"} THEN JNum(j.n) ELSE JNum(default)

\* the requirements returned when json.loads fails
ParseFailRequirements ==
    TripRequirements([mode |-> "missing", origin |-> None, destination |-> None,
                      trip_startdate |-> None, trip_enddate |-> None,
                      has_adults |-> FALSE, no_of_adults |-> None,
                      no_of_children |-> 0, budget |-> None, error |-> None,
                      missing_fields |-> Some(<<"origin", "destination">>)])

\* info_collector for the model's reply: reply.parse says whether the text
\* held a JSON object, reply.data is that object
info_collector(reply) ==
    IF ~reply.parse THEN ParseFailRequirements
    ELSE LET d1 == NormalizeBlanks(NormalizeMode(reply.data))
             d2 == [d1 EXCEPT !.budget = FixBudget(d1.budget),
                              !.no_of_adults = FixCount(d1.no_of_adults, 1),
                              !.no_of_children = FixCount(d1.no_of_children, 0)]
         IN  FromData(d2)


(***************************************************************************)
(* phases/phase3_autogen/trip_agents.py                                    *)
(* A text is a sequence of tokens; "kw in text" is token membership.       *)
(***************************************************************************)
Has(text, kw) == \E i \in 1..Len(text) : text[i] = kw

\* the token that follows the first occurrence of kw, "" when there is none
\* or when it is the token stop: text.split(kw)[1].split(stop)[0].strip()
After(text, kw, stop) ==
    LET i == CHOOSE j \in 1..Len(text) : text[j] = kw /\ \A k \in 1..(j - 1) : text[k] # kw
    IN  IF i < Len(text) /\ text[i + 1] # stop THEN text[i + 1] ELSE ""

\* dict.setdefault(key, value)
SetDefault(data, key, value) ==
    IF data[key].t = "absent" THEN [data EXCEPT ![key] = value] ELSE data

\* the dates of line 240-241 as day numbers
March15 == 1
March18 == 2

EmptyData == [k \in DataKeys |-> JAbsent]

AutoGenRequiredTruthy(data) == \A i \in 1..Len(required_fields) : JTruthy(data[required_fields[i]])

\* run_info_collection(user_input, context) for the model's reply
run_info_collection(user_input, context, reply) ==
    LET data == IF reply.parse THEN reply.data ELSE EmptyData
        text == context \o user_input
        d1 == IF Has(text, "from") /\ Has(text, "to")
              THEN SetDefault(SetDefault(data, "origin", JStr(After(text, "from", "to"))),
                              "destination", JStr(After(text, "to", "to")))
              ELSE data
        d2 == IF Has(text, "march")
              THEN SetDefault(SetDefault(d1, "trip_startdate", JDate(March15)),
                              "trip_enddate", JDate(March18))
              ELSE d1
        d3 == IF Has(text, "2 adult") THEN SetDefault(d2, "no_of_adults", JNum(2)) ELSE d2
        d4 == IF Has(text, "40000") THEN SetDefault(d3, "budget", JNum(40000)) ELSE d3
        d5 == [d4 EXCEPT !.mode = IF AutoGenRequiredTruthy(d4) THEN JStr("trip") ELSE JStr("missing")]
    IN  SetDefault(d5, "no_of_children", JNum(0))

(***************************************************************************)
(* db/db_utils.py                                                          *)
(***************************************************************************)
\* create_trip: INSERT INTO trips; the new id is cur.lastrowid
create_trip(t, trip) ==
    Append(t, [user_id |-> trip.user_id, phase |-> trip.phase,
               origin |-> trip.origin[1], destination |-> trip.destination[1],
               trip_startdate |-> trip.trip_startdate[1],
               trip_enddate |-> trip.trip_enddate[1],
               no_of_adults |-> trip.no_of_adults,
               no_of_children |-> trip.no_of_children,
               budget |-> trip.budget, trip_status |-> trip.trip_status])

\* update_trip_status: UPDATE trips SET trip_status=? WHERE id=?
update_trip_status(t, trip_id, trip_status) ==
    [i \in 1..Len(t) |-> IF i = trip_id THEN [t[i] EXCEPT !.trip_status = trip_status] ELSE t[i]]

\* db/schema.sql, table trip_plans: no constraint refuses a row, whatever rows
\* p the table holds
trip_plans_insert_accepts(p, trip_id, version) == TRUE

\* from_travel_plan storing the plan as already approved
save_travel_plan_to_db_AutoApproved(p, trip_id, version) ==
    Append(p, [trip_id |-> trip_id, version |-> version, status |-> "approved"])

\* TripPlanModel.from_travel_plan + create_trip_plan (save_travel_plan_to_db)
save_travel_plan_to_db(p, trip_id, version) ==
    Append(p, [trip_id |-> trip_id, version |-> version, status |-> "draft"])

\* db/schema.sql, table trip_plans: status is a text column that takes any
\* value
trip_plans_status_accepts(status) == TRUE

\* UPDATE trip_plans SET status=? WHERE trip_id=?
update_trip_plan_status_ByTripId(p, plan_id, status) ==
    [i \in 1..Len(p) |-> IF p[i].trip_id = plan_id THEN [p[i] EXCEPT !.status = status] ELSE p[i]]

\* update_trip_plan_status: UPDATE trip_plans SET status=? WHERE id=?; an
\* sqlite3 error is swallowed and the table is left as it was
update_trip_plan_status(p, plan_id, status) ==
    IF trip_plans_status_accepts(status)
    THEN [i \in 1..Len(p) |-> IF i = plan_id THEN [p[i] EXCEPT !.status = status] ELSE p[i]]
    ELSE p

PlanStatuses == {"draft", "approved", "rejected"}

\* the ids of the rows the SELECT of get_trip_plan_by_trip_id may deliver as
\* its first row: with a version, any row of that trip and version; without,
\* any row of the trip whose version is the highest (ORDER BY version DESC
\* LIMIT 1 leaves the order among equal versions open)
SelectPlan(p, trip_id, version) ==
    IF version # None
    THEN {i \in 1..Len(p) : p[i].trip_id = trip_id /\ p[i].version = version[1]}
    ELSE {i \in 1..Len(p) : /\ p[i].trip_id = trip_id
                            /\ \A j \in 1..Len(p) :
                                  p[j].trip_id = trip_id => p[j].version <= p[i].version}

\* the outcomes of get_trip_plan_by_trip_id: None, a TripPlanModel (its id),
\* or the ValidationError of TripPlanModel(**dict(row))
get_trip_plan_by_trip_id(p, trip_id, version) ==
    IF SelectPlan(p, trip_id, version) = {}
    THEN {[raised |-> FALSE, plan |-> None]}
    ELSE {[raised |-> p[i].status \notin PlanStatuses,
           plan |-> IF p[i].status \in PlanStatuses THEN Some(i) ELSE None] :
            i \in SelectPlan(p, trip_id, version)}


(***************************************************************************)
(* The callers' inputs                                                     *)
(***************************************************************************)
Users == {1, 2}

\* user utterances, as token sequences
Hello == <<"hello">>
FullRequest == <<"from", "bangalore", "to", "goa", "march", "2 adult", "40000">>

\* a complete reply, and the values each key of a reply ranges over
BaseData ==
    [mode |-> JStr("trip"), origin |-> JStr("Bangalore"), destination |-> JStr("Goa"),
     trip_startdate |-> JDate(2), trip_enddate |-> JDate(3),
     no_of_adults |-> JNum(2), no_of_children |-> JNum(0), budget |-> JNum(100)]

KeyValues(k) ==
    CASE k = "mode" -> {JStr("trip"), JStr("missing"), JStr("chat"), JAbsent}
      [] k \in {"origin", "destination"} -> {JAbsent, JNull, JStr(""), JStr("undefined")}
      [] k = "trip_startdate" -> {JAbsent, JNull, JStr("soon")}
      [] k = "trip_enddate" -> {JAbsent, JNull}
      [] k = "no_of_adults" -> {JAbsent, JNull, JNum(0), JNum(-1), JNumStr(0), JStr("two")}
      [] k = "no_of_children" -> {JAbsent, JNum(-1), JNum(1)}
      [] k = "budget" -> {JAbsent, JNull, JNum(0), JNumStr(100), JStr("cheap")}

\* the replies of the language model: unparseable text, the complete reply
\* with any pair of dates, and the complete reply with one key changed
Replies ==
    {[parse |-> FALSE, data |-> EmptyData]}
    \cup {[parse |-> TRUE, data |-> [BaseData EXCEPT !.trip_startdate = JDate(a),
                                                      !.trip_enddate = JDate(b)]] :
            a \in Days, b \in Days}
    \cup UNION {{[parse |-> TRUE, data |-> [BaseData EXCEPT ![k] = x]] : x \in KeyValues(k)} :
                    k \in DataKeys}


(***************************************************************************)
(* phases/phase2_crewai/trip_orchestrator.py                               *)
(***************************************************************************)
ChatRow(trip_id, user_id, role, phase, content) ==
    [trip_id |-> trip_id, user_id |-> user_id, role |-> role, phase |-> phase,
     content |-> content]

\* the required fields that are set (truthy) in a requirements object
ObjPresent(r) ==
    {f \in {"origin", "destination", "trip_startdate", "trip_enddate", "budget"} : Truthy(r, f)}
    \cup (IF r.no_of_adults # None /\ r.no_of_adults[1] # 0 THEN {"no_of_adults"} ELSE {})

\* all(required_core)
CoreTruthy(r) ==
    \A f \in {"origin", "destination", "trip_startdate", "trip_enddate", "budget"} : Truthy(r, f)

Incomplete(missing_fields) ==
    [success |-> FALSE, status |-> "INCOMPLETE", trip_id |-> None,
     missing_fields |-> missing_fields]

Planned(status, trip_id) ==
    [success |-> TRUE, status |-> status, trip_id |-> Some(trip_id), missing_fields |-> None]

\* api/app.py plan_trip: the orchestrator's result is the response; an
\* exception becomes {"success": False, "error": ...}
ApiError == [null |-> FALSE, success |-> FALSE, error |-> TRUE]
ApiOf(result) == [null |-> FALSE, success |-> result.success, error |-> FALSE]

\* the agents a plan_trip call runs, in the order of its statements
Extracted == <<"info_collector">>
Pipeline == <<"info_collector", "planner", "optimizer">>

PlanRet(phase, user_id, user_input, steps, raised, result, extracted) ==
    [op |-> "plan_trip", phase |-> phase, user_id |-> user_id,
     user_input |-> user_input, steps |-> steps, raised |-> raised,
     result |-> result, extracted |-> extracted,
     api |-> IF raised THEN ApiError ELSE ApiOf(result)]

NoResult == [success |-> FALSE, status |-> "", trip_id |-> None, missing_fields |-> None]

\* how the planner and the optimizer end: crew.kickoff() of the planner
\* raises, crew.kickoff() of the optimizer raises, or both return
CrewRuns == {"planner_error", "optimizer_error", "ok"}

\* CrewAITripOrchestrator.plan_trip(user_input, user_id), called by the
\* plan-trip endpoint; requirements is what info_collector(context_input)
\* returned for the reply of its language model
CrewPlanTrip(user_id, user_input, requirements) ==
    LET phase == "phase2_crewai"
        chat1 == Append(chat, ChatRow(None, user_id, "user", phase, user_input))
        extracted == [all_six |-> ObjPresent(requirements) = Range(required_fields),
                      start_after_today |-> /\ requirements.trip_startdate # None
                                            /\ requirements.trip_startdate[1] > today]
        trip_data == to_trip_dict(requirements, user_id, phase)
        trip_id == Len(trips) + 1
        Return(result) ==
            /\ chat' = chat1
            /\ ret' = PlanRet(phase, user_id, user_input, Extracted, FALSE, result, extracted)
            /\ UNCHANGED <<trips, plans>>
        Raise ==
            /\ chat' = chat1
            /\ ret' = PlanRet(phase, user_id, user_input, Extracted, TRUE, NoResult, extracted)
            /\ UNCHANGED <<trips, plans>>
    IN  /\ Len(chat) + 2 <= MaxChat
        /\ Len(trips) < MaxTrips
        /\ Len(plans) < MaxPlans
        /\ IF requirements.raised THEN Raise
           ELSE IF ~CoreTruthy(requirements) THEN Return(Incomplete(requirements.missing_fields))
           ELSE IF ~is_complete(requirements) THEN Return(Incomplete(requirements.missing_fields))
           ELSE IF requirements.trip_startdate # None /\ requirements.trip_startdate[1] <= today
                THEN Return(Incomplete(Some(<<"trip_startdate">>)))
           ELSE IF trip_data.raised \/ TripRaises(trip_data, today) THEN Raise
           ELSE \E run \in CrewRuns :
                /\ trips' = update_trip_status(create_trip(trips, trip_data), trip_id, "draft")
                /\ CASE run = "planner_error" ->
                          /\ chat' = chat1
                          /\ ret' = PlanRet(phase, user_id, user_input, Append(Extracted, "planner"), TRUE, NoResult, extracted)
                          /\ UNCHANGED plans
                     [] run = "optimizer_error" ->
                          /\ plans' = save_travel_plan_to_db(plans, trip_id, 1)
                          /\ chat' = chat1
                          /\ ret' = PlanRet(phase, user_id, user_input, Pipeline, TRUE, NoResult, extracted)
                     [] run = "ok" ->
                          /\ plans' = save_travel_plan_to_db(plans, trip_id, 1)
                          /\ chat' = Append(chat1, ChatRow(Some(trip_id), user_id, "assistant",
                                                           phase,
                                                           <<"Trip plan generated and optimized">>))
                          /\ ret' = PlanRet(phase, user_id, user_input, Pipeline, FALSE,
                                            Planned("OPTIMIZED", trip_id), extracted)
        /\ UNCHANGED <<today, ctx, reqIn, reqOut, tripIn, tripOut, planIn, planOut, accIn, accOut>>

ApproveRet(phase, trip_id, decision, raised, success, plan, api) ==
    [op |-> "continue_trip_approval", phase |-> phase, trip_id |-> trip_id,
     decision |-> decision, raised |-> raised, success |-> success, plan |-> plan,
     api |-> api]

\* api/app.py approve_trip after the orchestrator returned: the latest plan is
\* fetched again for the response, which always says success
ApproveApi(p) ==
    {IF g.raised THEN ApiError ELSE [null |-> FALSE, success |-> TRUE, error |-> FALSE] :
        g \in p}

\* CrewAITripOrchestrator.continue_trip_approval(trip_id, decision), called by
\* the approve endpoint
CrewApprove(trip_id, approval) ==
    LET phase == "phase2_crewai"
        decision == IF approval THEN "approved" ELSE "rejected"
    IN  /\ \E g \in get_trip_plan_by_trip_id(plans, trip_id, None) :
              IF g.raised
              THEN /\ ret' = ApproveRet(phase, trip_id, decision, TRUE, FALSE, None, ApiError)
                   /\ UNCHANGED <<trips, plans>>
              ELSE IF g.plan = None
              THEN /\ \E a \in ApproveApi(get_trip_plan_by_trip_id(plans, trip_id, None)) :
                          ret' = ApproveRet(phase, trip_id, decision, FALSE, FALSE, None, a)
                   /\ UNCHANGED <<trips, plans>>
              ELSE /\ plans' = update_trip_plan_status(plans, g.plan[1], decision)
                   /\ trips' = update_trip_status(trips, trip_id,
                                                  IF approval THEN "confirmed" ELSE "draft")
                   /\ \E a \in ApproveApi(get_trip_plan_by_trip_id(plans', trip_id, None)) :
                          ret' = ApproveRet(phase, trip_id, decision, FALSE, TRUE, g.plan, a)
        /\ UNCHANGED <<today, chat, ctx, reqIn, reqOut, tripIn, tripOut, planIn, planOut, accIn, accOut>>


(***************************************************************************)
(* phases/phase3_autogen/trip_orchestrator.py                              *)
(***************************************************************************)
\* the outcomes of run_planning_group_chat and of the code that uses it:
\*   no_consensus  consensus is false (or no parseable Planner message)
\*   bad_plan      final_plan lacks a key or TravelPlan(...) rejects it
\*   late_error    the plan is saved, then the response post-processing raises
\*   ok            the plan is saved and the response is built
Debates == {"no_consensus", "bad_plan", "late_error", "ok"}

\* a group chat that the optimizer opens
RoundRobin_OptimizerFirst(rounds) ==
    [i \in 1..rounds |-> IF i % 2 = 1 THEN "optimizer" ELSE "planner"]

\* the speakers of the group chat, in order: round_robin over [planner,
\* optimizer]
RoundRobin(rounds) == [i \in 1..rounds |-> IF i % 2 = 1 THEN "planner" ELSE "optimizer"]

\* self._incomplete_context as a sequence of utterances; Text joins them
RECURSIVE Text(_)
Text(c) == IF c = <<>> THEN <<>> ELSE Head(c) \o Text(Tail(c))

\* what run_info_collection returns, by context, utterance and reply
Utterances == {Hello, FullRequest}
Contexts == UNION {[1..n -> Utterances] : n \in 0..MaxCtx}
AutoGenExtractions ==
    [c \in Contexts, m \in Utterances, r \in Replies |-> run_info_collection(m, Text(c), r)]

\* TripRequirements(**info), tabulated over the dicts run_info_collection returns
AutoGenInfos == {AutoGenExtractions[x] : x \in DOMAIN AutoGenExtractions}
AutoGenRequirements == [info \in AutoGenInfos |-> FromData(info)]

\* the pending contexts after an incomplete call that keeps one context for
\* all users
pending_Shared(c, user_id, user_input) ==
    [u \in DOMAIN c |-> Append(c[user_id], user_input)]

\* self._incomplete_context[user_id] = (context + "\n" + user_input).strip()
pending(c, user_id, user_input) ==
    [c EXCEPT ![user_id] = Append(c[user_id], user_input)]

\* AutoGenTripOrchestrator.plan_trip(user_input, user_id), called by the
\* plan-trip endpoint; info is what run_info_collection(user_input, context)
\* returned for the reply of its language model
AutoGenPlanTrip(user_id, user_input, info) ==
    LET phase == "phase3_autogen"
        context == ctx[user_id]
        missing == SelectSeq(required_fields, LAMBDA k : ~JTruthy(info[k]))
        extracted == [all_six |-> AutoGenRequiredTruthy(info),
                      start_after_today |-> /\ info.trip_startdate.t = "date"
                                            /\ info.trip_startdate.n > today]
        requirements == AutoGenRequirements[info]
        trip_data == to_trip_dict(requirements, user_id, phase)
        trip_id == Len(trips) + 1
        trips1 == update_trip_status(create_trip(trips, trip_data), trip_id, "in_progress")
    IN  /\ Len(trips) < MaxTrips
        /\ Len(plans) < MaxPlans
        /\ IF info.mode = JStr("missing") \/ missing # <<>>
           THEN /\ Len(context) < MaxCtx
                /\ ctx' = pending(ctx, user_id, user_input)
                /\ ret' = PlanRet(phase, user_id, user_input, Extracted, FALSE, Incomplete(Some(missing)), extracted)
                /\ UNCHANGED <<trips, plans>>
           ELSE /\ ctx' = [ctx EXCEPT ![user_id] = <<>>]
                /\ IF requirements.raised \/ trip_data.raised \/ TripRaises(trip_data, today)
                   THEN /\ ret' = PlanRet(phase, user_id, user_input, Extracted, TRUE, NoResult, extracted)
                        /\ UNCHANGED <<trips, plans>>
                   ELSE \E debate \in Debates, rounds \in 1..MaxRound :
                        /\ trips' = trips1
                        /\ debate # "no_consensus" => rounds >= 2
                        /\ CASE debate = "no_consensus" ->
                                  /\ ret' = PlanRet(phase, user_id, user_input, Extracted \o RoundRobin(rounds), FALSE,
                                                    [success |-> FALSE, status |-> "NO_CONSENSUS",
                                                     trip_id |-> Some(trip_id),
                                                     missing_fields |-> None], extracted)
                                  /\ UNCHANGED plans
                             [] debate = "bad_plan" ->
                                  /\ ret' = PlanRet(phase, user_id, user_input, Extracted \o RoundRobin(rounds), TRUE, NoResult, extracted)
                                  /\ UNCHANGED plans
                             [] debate = "late_error" ->
                                  /\ ret' = PlanRet(phase, user_id, user_input, Extracted \o RoundRobin(rounds), TRUE, NoResult, extracted)
                                  /\ plans' = save_travel_plan_to_db(plans, trip_id, 1)
                             [] debate = "ok" ->
                                  /\ ret' = PlanRet(phase, user_id, user_input, Extracted \o RoundRobin(rounds), FALSE,
                                                    Planned("PLANNED", trip_id), extracted)
                                  /\ plans' = save_travel_plan_to_db(plans, trip_id, 1)
        /\ UNCHANGED <<today, chat, reqIn, reqOut, tripIn, tripOut, planIn, planOut, accIn, accOut>>

\* AutoGenTripOrchestrator.continue_trip_approval(trip_id, decision), called
\* by the approve endpoint
AutoGenApprove(trip_id, approval) ==
    LET phase == "phase3_autogen"
        decision == IF approval THEN "approved" ELSE "rejected"
    IN  /\ \E g \in get_trip_plan_by_trip_id(plans, trip_id, None) :
              IF g.raised
              THEN /\ ret' = ApproveRet(phase, trip_id, decision, TRUE, FALSE, None, ApiError)
                   /\ UNCHANGED plans
              ELSE IF g.plan = None
              THEN /\ \E a \in ApproveApi(get_trip_plan_by_trip_id(plans, trip_id, None)) :
                          ret' = ApproveRet(phase, trip_id, decision, FALSE, FALSE, None, a)
                   /\ UNCHANGED plans
              ELSE /\ plans' = update_trip_plan_status(plans, g.plan[1], decision)
                   /\ \E a \in ApproveApi(get_trip_plan_by_trip_id(plans', trip_id, None)) :
                          ret' = ApproveRet(phase, trip_id, decision, FALSE, TRUE, g.plan, a)
        /\ UNCHANGED <<today, trips, chat, ctx, reqIn, reqOut, tripIn, tripOut, planIn, planOut, accIn, accOut>>

(***************************************************************************)
(* phases/phase4_langgraph/trip_orchestrator.py and the endpoints of       *)
(* api/app.py that do not go through an orchestrator                       *)
(***************************************************************************)
\* LangGraphTripOrchestrator.plan_trip is `pass`: the endpoint returns None
LangGraphPlanTrip(user_id) ==
    /\ ret' = [op |-> "plan_trip", phase |-> "phase4_langgraph", user_id |-> user_id,
               raised |-> FALSE, result |-> NoResult,
               extracted |-> [all_six |-> FALSE, start_after_today |-> FALSE],
               api |-> [null |-> TRUE, success |-> FALSE, error |-> FALSE]]
    /\ UNCHANGED <<today, trips, plans, chat, ctx, reqIn, reqOut, tripIn, tripOut, planIn, planOut, accIn, accOut>>

\* LangGraphTripOrchestrator has no continue_trip_approval: AttributeError,
\* caught by approve_trip
LangGraphApprove(trip_id, approval) ==
    /\ ret' = ApproveRet("phase4_langgraph", trip_id,
                         IF approval THEN "approved" ELSE "rejected", TRUE, FALSE, None, ApiError)
    /\ UNCHANGED <<today, trips, plans, chat, ctx, reqIn, reqOut, tripIn, tripOut, planIn, planOut, accIn, accOut>>

\* a phase that is not a key of PHASE_ORCHESTRATOR_MAP
UnsupportedPhase(op) ==
    /\ op \in {"plan_trip", "continue_trip_approval"}
    /\ ret' = [op |-> "unsupported", endpoint |-> op, api |-> ApiError]
    /\ UNCHANGED <<today, trips, plans, chat, ctx, reqIn, reqOut, tripIn, tripOut, planIn, planOut, accIn, accOut>>

\* GET /api/v1/trip/{trip_id}/plan -> db_utils.get_trip_plan_by_trip_id
GetTripPlan(trip_id, version) ==
    /\ \E g \in get_trip_plan_by_trip_id(plans, trip_id, version) :
          ret' = [op |-> "get_trip_plan_by_trip_id", trip_id |-> trip_id,
                  version |-> version, raised |-> g.raised, plan |-> g.plan,
                  api |-> IF g.raised THEN ApiError
                          ELSE [null |-> FALSE, success |-> g.plan # None, error |-> g.plan = None]]
    /\ UNCHANGED <<today, trips, plans, chat, ctx, reqIn, reqOut, tripIn, tripOut, planIn, planOut, accIn, accOut>>

\* POST /api/v1/trip/{trip_id}/plan -> db_utils.save_travel_plan_to_db
SaveTripPlan(trip_id, version) ==
    /\ Len(plans) < MaxPlans
    /\ IF trip_plans_insert_accepts(plans, trip_id, version)
       THEN /\ plans' = save_travel_plan_to_db(plans, trip_id, version)
            /\ ret' = [op |-> "save_trip_plan", trip_id |-> trip_id, version |-> version,
                       plan_id |-> Len(plans) + 1,
                       api |-> [null |-> FALSE, success |-> TRUE, error |-> FALSE]]
       ELSE /\ plans' = plans
            /\ ret' = [op |-> "save_trip_plan", trip_id |-> trip_id, version |-> version,
                       plan_id |-> 0, api |-> ApiError]
    /\ UNCHANGED <<today, trips, chat, ctx, reqIn, reqOut, tripIn, tripOut, planIn, planOut, accIn, accOut>>

\* PUT /api/v1/trip-plan/{plan_id}/status; status is the text after
\* lower().strip()
UpdatePlanStatus(plan_id, status) ==
    LET allowed == status \in {"draft", "confirmed", "approved", "rejected"}
        updated == allowed /\ plan_id \in 1..Len(plans) /\ trip_plans_status_accepts(status)
    IN  /\ plans' = IF allowed THEN update_trip_plan_status(plans, plan_id, status) ELSE plans
        /\ ret' = [op |-> "update_plan_status", plan_id |-> plan_id, status |-> status,
                   api |-> [null |-> FALSE, success |-> updated, error |-> ~updated]]
        /\ UNCHANGED <<today, trips, chat, ctx, reqIn, reqOut, tripIn, tripOut, planIn, planOut, accIn, accOut>>

\* db_utils.start_new_trip(user_id, request): Trip(user_id=..., **request,
\* trip_status="draft"), then create_trip
start_new_trip(user_id, request) ==
    LET trip == [request EXCEPT !.user_id = user_id, !.trip_status = "draft"]
        raised == TripRaises(trip, today)
    IN  /\ Len(trips) < MaxTrips
        /\ trips' = IF raised THEN trips ELSE create_trip(trips, trip)
        /\ ret' = [op |-> "start_new_trip", raised |-> raised,
                   trip_startdate |-> request.trip_startdate,
                   trip_enddate |-> request.trip_enddate]
        /\ UNCHANGED <<today, plans, chat, ctx, reqIn, reqOut, tripIn, tripOut, planIn, planOut, accIn, accOut>>

\* the calendar moves on
Midnight ==
    /\ today < MaxToday
    /\ today' = today + 1
    /\ UNCHANGED <<trips, plans, chat, ctx, ret, reqIn, reqOut, tripIn, tripOut, planIn, planOut, accIn, accOut>>


(***************************************************************************)
(* The service: the endpoints of api/app.py over one database              *)
(***************************************************************************)
TripIds == 1..MaxTrips
PlanIds == 1..MaxPlans
Versions == 1..MaxVersion

\* the request dicts handed to start_new_trip
TripRequests ==
    [id : {None}, user_id : {0}, phase : {"phase1_langflow"},
     origin : {Some("Bangalore")}, destination : {Some("Goa")},
     trip_startdate : OptOf(Days), trip_enddate : {Some(d) : d \in Days},
     no_of_adults : {1}, no_of_children : {0}, budget : {500},
     trip_status : {"draft"}]

Idle == [stage |-> "idle"]

Init ==
    /\ today = 0
    /\ trips = <<>>
    /\ plans = <<>>
    /\ chat = <<>>
    /\ ctx = [u \in Users |-> <<>>]
    /\ ret = [op |-> "init"]
    /\ reqIn = None /\ reqOut = Idle
    /\ tripIn = None /\ tripOut = Idle
    /\ planIn = None /\ planOut = Idle
    /\ accIn = None /\ accOut = Idle

\* what info_collector returns over the replies R
CrewExtractions(R) == {info_collector(r) : r \in R}


\* the replies the service specification plans with: the complete one
CompleteReplies == {[parse |-> TRUE, data |-> BaseData]}
CompleteExtractions == CrewExtractions(CompleteReplies)

\* every endpoint, for one user who sends complete requests
Next ==
    \/ \E q \in CompleteExtractions : CrewPlanTrip(1, Hello, q)
    \/ \E r \in CompleteReplies : AutoGenPlanTrip(1, Hello, AutoGenExtractions[ctx[1], Hello, r])
    \/ LangGraphPlanTrip(1)
    \/ \E t \in TripIds, a \in BOOLEAN : CrewApprove(t, a)
    \/ \E t \in TripIds, a \in BOOLEAN : AutoGenApprove(t, a)
    \/ \E t \in TripIds, a \in BOOLEAN : LangGraphApprove(t, a)
    \/ \E op \in {"plan_trip", "continue_trip_approval"} : UnsupportedPhase(op)
    \/ \E t \in TripIds, v \in OptOf(Versions) : GetTripPlan(t, v)
    \/ \E t \in TripIds, v \in Versions : SaveTripPlan(t, v)
    \/ \E p \in PlanIds, st \in {"draft", "confirmed", "approved", "rejected", "done"} :
          UpdatePlanStatus(p, st)

Spec == Init /\ [][Next]_vars

(***************************************************************************)
(* Planning: the plan-trip endpoint and start_new_trip, for every reply of *)
(* the extractor's language model, as the days pass                        *)
(***************************************************************************)
AllExtractions == CrewExtractions(Replies)

NextPlan ==
    \/ \E m \in Utterances, q \in AllExtractions : CrewPlanTrip(1, m, q)
    \/ \E m \in Utterances, r \in Replies :
          /\ Len(ctx[1]) < MaxCtx
          /\ AutoGenPlanTrip(1, m, AutoGenExtractions[ctx[1], m, r])
    \/ LangGraphPlanTrip(1)
    \/ UnsupportedPhase("plan_trip")
    \/ \E q \in TripRequests : start_new_trip(1, q)
    \/ Midnight

SpecPlan == Init /\ [][NextPlan]_vars

(***************************************************************************)
(* TripRequirements as a function of its keyword arguments                 *)
(***************************************************************************)
ReqInputs ==
    [mode : {"absent", "trip", "missing", "other"},
     origin : OptOf({"", "Bangalore"}),
     destination : OptOf({"Goa"}),
     trip_startdate : OptOf(Days),
     trip_enddate : OptOf(Days),
     has_adults : {TRUE},
     no_of_adults : OptOf({0, 2}),
     no_of_children : {0},
     budget : OptOf({0, 100}),
     error : OptOf({"MISSING"}),
     missing_fields : {None, Some(<<>>), Some(<<"budget">>)}]
    \cup
    [mode : {"absent", "trip", "missing", "other"},
     origin : OptOf({"", "Bangalore"}),
     destination : OptOf({"Goa"}),
     trip_startdate : OptOf(Days),
     trip_enddate : OptOf(Days),
     has_adults : {FALSE},
     no_of_adults : {None},
     no_of_children : {0},
     budget : OptOf({0, 100}),
     error : OptOf({"MISSING"}),
     missing_fields : {None, Some(<<>>), Some(<<"budget">>)}]

InitReq ==
    /\ reqIn \in ReqInputs
    /\ reqOut = [stage |-> "new"]
    /\ today = 0 /\ trips = <<>> /\ plans = <<>> /\ chat = <<>>
    /\ ctx = [u \in Users |-> <<>>] /\ ret = [op |-> "init"]
    /\ tripIn = None /\ tripOut = Idle
    /\ planIn = None /\ planOut = Idle
    /\ accIn = None /\ accOut = Idle

\* TripRequirements(**reqIn)
ConstructRequirements ==
    /\ reqOut.stage = "new"
    /\ reqOut' = [stage |-> "built", req |-> TripRequirements(reqIn)]
    /\ UNCHANGED <<today, trips, plans, chat, ctx, ret, reqIn, tripIn, tripOut, planIn, planOut, accIn, accOut>>

\* requirements.to_trip_dict(1, "phase2_crewai") on the constructed object
ConvertRequirements ==
    /\ reqOut.stage = "built"
    /\ ~reqOut.req.raised
    /\ reqOut' = [stage |-> "dict", req |-> reqOut.req,
                  dict |-> to_trip_dict(reqOut.req, 1, "phase2_crewai")]
    /\ UNCHANGED <<today, trips, plans, chat, ctx, ret, reqIn, tripIn, tripOut, planIn, planOut, accIn, accOut>>

NextReq == ConstructRequirements \/ ConvertRequirements

SpecReq == InitReq /\ [][NextReq]_vars

(***************************************************************************)
(* Trip as a function of its keyword arguments and of date.today()         *)
(***************************************************************************)
TripInputs ==
    [id : OptOf({1}), user_id : {1}, phase : {"phase2_crewai", "phase9"},
     origin : OptOf({"Bangalore"}), destination : {Some("Goa")},
     trip_startdate : OptOf(Days), trip_enddate : OptOf(Days),
     no_of_adults : {0, 2}, no_of_children : {0, -1}, budget : {-1, 0, 100},
     trip_status : {"draft", "in_progress", "planned"}]

InitTrip ==
    /\ tripIn \in TripInputs
    /\ tripOut = [stage |-> "new"]
    /\ today \in Days
    /\ trips = <<>> /\ plans = <<>> /\ chat = <<>>
    /\ ctx = [u \in Users |-> <<>>] /\ ret = [op |-> "init"]
    /\ reqIn = None /\ reqOut = Idle
    /\ planIn = None /\ planOut = Idle
    /\ accIn = None /\ accOut = Idle

\* Trip(**tripIn)
ConstructTrip ==
    /\ tripOut.stage = "new"
    /\ tripOut' = [stage |-> "built", raised |-> TripRaises(tripIn, today)]
    /\ UNCHANGED <<today, trips, plans, chat, ctx, ret, reqIn, reqOut, tripIn,
                   planIn, planOut, accIn, accOut>>

NextTrip == ConstructTrip

SpecTrip == InitTrip /\ [][NextTrip]_vars


(***************************************************************************)
(* Properties of TripRequirements (SpecReq)                                *)
(***************************************************************************)
Built == reqOut.stage \in {"built", "dict"}
TripModeIn == reqIn.mode \in {"absent", "trip"}

\* the required fields that the keyword arguments do not give (no key, or None)
AbsentFields ==
    {f \in {"origin", "destination", "trip_startdate", "trip_enddate", "budget"} : reqIn[f] = None}
    \cup (IF ~reqIn.has_adults \/ reqIn.no_of_adults = None THEN {"no_of_adults"} ELSE {})

\* the required fields that are given with an empty value: "" or 0
EmptyFields ==
    {f \in {"origin", "destination"} : reqIn[f] = Some("")}
    \cup {f \in {"no_of_adults", "budget"} : reqIn[f] = Some(0)}

Downgraded(S) ==
    /\ ~reqOut.req.raised
    /\ reqOut.req.mode = "missing"
    /\ reqOut.req.error = Some("MISSING")
    /\ reqOut.req.missing_fields # None
    /\ Range(reqOut.req.missing_fields[1]) = S
    /\ Len(reqOut.req.missing_fields[1]) = Cardinality(S)

\* C5 as stated: in trip mode, when the set S of absent required fields is
\* not empty, the object has mode "missing", error "MISSING" and
\* missing_fields lists exactly S.
C5_Original ==
    (Built /\ TripModeIn /\ AbsentFields # {}) => Downgraded(AbsentFields)

\* C5 amended: in trip mode, when the set S of required fields that are absent
\* or given empty ("" for a string, 0 for a number) is not empty, the object
\* has mode "missing", error "MISSING" and missing_fields lists exactly S.
C5_MissingExactlyAbsentOrEmpty ==
    (Built /\ TripModeIn /\ (AbsentFields \cup EmptyFields) # {})
        => Downgraded(AbsentFields \cup EmptyFields)

C5_Witness ==
    /\ Built /\ reqIn.mode = "trip"
    /\ AbsentFields = {"origin", "trip_enddate"}
    /\ EmptyFields = {"budget"}
    /\ reqOut.req.missing_fields = Some(<<"origin", "trip_enddate", "budget">>)

OtherFieldsValid ==
    /\ tripIn.phase \in Phases
    /\ tripIn.origin # None /\ tripIn.destination # None
    /\ tripIn.no_of_adults >= 1 /\ tripIn.no_of_children >= 0 /\ tripIn.budget >= 0
    /\ tripIn.trip_status \in TripStatuses

\* C9: a Trip without an id whose start date is on or before today is
\* rejected; a Trip that carries an id is accepted whatever its start date,
\* provided its end date is after its start date (the other fields being valid).
C9_FutureDateOnlyForNewTrips ==
    tripOut.stage = "built" =>
        /\ (tripIn.id = None /\ tripIn.trip_startdate # None
              /\ tripIn.trip_startdate[1] <= today) => tripOut.raised
        /\ (tripIn.id # None /\ OtherFieldsValid
              /\ tripIn.trip_startdate # None /\ tripIn.trip_enddate # None
              /\ tripIn.trip_enddate[1] > tripIn.trip_startdate[1]) => ~tripOut.raised

C9_Witness ==
    /\ tripOut.stage = "built" /\ ~tripOut.raised
    /\ tripIn.id = Some(1)
    /\ tripIn.trip_startdate = Some(1) /\ today = 2

(***************************************************************************)
(* Approval, planning and the plan store                                   *)
(***************************************************************************)
Orchestrated == {"phase2_crewai", "phase3_autogen"}
Approved(r) == r.op = "continue_trip_approval" /\ r.phase \in Orchestrated /\ r.plan # None

\* C1: after continue_trip_approval of the CrewAI or the AutoGen orchestrator
\* on a trip that has a plan, the trip's latest plan has the status of the
\* decision and the trip is "confirmed" after an approval, "draft" after a
\* rejection
C1_ApprovalSetsPlanAndTrip ==
    (Approved(ret) /\ ret.trip_id \in 1..Len(trips)) =>
        /\ plans[ret.plan[1]].status = ret.decision
        /\ trips[ret.trip_id].trip_status =
              (IF ret.decision = "approved" THEN "confirmed" ELSE "draft")

\* a plan_trip call of the CrewAI or the AutoGen orchestrator has just returned
PlanTripStep == ret'.op = "plan_trip" /\ today' = today
Returned(r) == r.op = "plan_trip" /\ r.phase \in Orchestrated /\ ~r.raised

C4_ChatLogged ==
    [][PlanTripStep =>
        /\ Len(chat') > Len(chat)
        /\ chat'[Len(chat) + 1].role = "user"
        /\ chat'[Len(chat) + 1].user_id = ret'.user_id
        /\ ~ret'.raised => chat'[Len(chat')].role = "assistant"]_vars

\* C8: a Trip construction with trip_enddate <= trip_startdate raises, and
\* every trips row has trip_enddate > trip_startdate
C8_EndAfterStart ==
    /\ (/\ ret.op = "start_new_trip"
        /\ ret.trip_startdate # None
        /\ ret.trip_enddate[1] <= ret.trip_startdate[1]) => ret.raised
    /\ \A i \in 1..Len(trips) : trips[i].trip_enddate > trips[i].trip_startdate

\* start_new_trip refused a one-day trip in the future, beside a stored trip
C8_Witness ==
    /\ ret.op = "start_new_trip" /\ ret.raised
    /\ ret.trip_startdate # None
    /\ ret.trip_startdate[1] > today
    /\ ret.trip_enddate = ret.trip_startdate
    /\ Len(trips) > 0

\* the rows a lookup of (trip_id, version) is about
RowsOf(trip_id, version) ==
    {i \in 1..Len(plans) : /\ plans[i].trip_id = trip_id
                           /\ version # None => plans[i].version = version[1]}

\* C10: get_trip_plan_by_trip_id(trip_id) returns the row of that trip with
\* the highest version, None when the trip has no plan;
\* get_trip_plan_by_trip_id(trip_id, v) returns a row of that trip with version
\* v, or None; the row returned is never another trip's
C10_LatestOrRequestedVersion ==
    ret.op = "get_trip_plan_by_trip_id" =>
        /\ ~ret.raised
        /\ ret.plan # None => ret.plan[1] \in RowsOf(ret.trip_id, ret.version)
        /\ ret.version = None =>
              /\ ret.plan = None <=> RowsOf(ret.trip_id, None) = {}
              /\ ret.plan # None =>
                    \A j \in RowsOf(ret.trip_id, None) :
                        plans[j].version <= plans[ret.plan[1]].version

\* C11: no two trip_plans rows have the same trip_id and version
C11_UniqueTripVersion ==
    \A i \in 1..Len(plans) : \A j \in 1..Len(plans) :
        (plans[i].trip_id = plans[j].trip_id /\ plans[i].version = plans[j].version) => i = j

\* C12: continue_trip_approval changes the status of no plan row but the one it
\* resolved as the trip's latest, adds no row, and changes no row of trips but
\* the trip's own
C12_OnlyLatestPlanChanges ==
    [][(ret'.op = "continue_trip_approval" /\ ret'.phase \in Orchestrated) =>
        /\ Len(plans') = Len(plans)
        /\ Len(trips') = Len(trips)
        /\ ret'.plan # None => ret'.plan[1] \in SelectPlan(plans, ret'.trip_id, None)
        /\ \A i \in 1..Len(plans) : Some(i) # ret'.plan => plans'[i] = plans[i]
        /\ \A t \in 1..Len(trips) : t # ret'.trip_id => trips'[t] = trips[t]]_vars

\* the latest of two versions of trip 1 was decided, the older one is as it was
C12_Witness ==
    /\ Approved(ret)
    /\ Len(plans) = 2
    /\ plans[1].trip_id = ret.trip_id /\ plans[2].trip_id = ret.trip_id
    /\ plans[1].version = 2 /\ plans[2].version = 1
    /\ ret.plan = Some(1)
    /\ plans[1].status = ret.decision
    /\ plans[2].status = "draft"

\* C13: a plan row that is approved or rejected keeps its status
C13_DecidedPlanKeepsStatus ==
    [][\A i \in 1..Len(plans) :
          plans[i].status \in {"approved", "rejected"} => plans'[i].status = plans[i].status]_vars

\* C14: every trip_plans row has a status that TripPlanModel accepts
C14_StatusLoadable ==
    \A i \in 1..Len(plans) : plans[i].status \in PlanStatuses


(***************************************************************************)
(* json.dumps / json.loads.  A Python value is a record of its kind; a     *)
(* JSON text is the sequence of its tokens.                                *)
(***************************************************************************)
MaxItems == 2

PyStr(s) == [k |-> "str", s |-> s, n |-> 0, items |-> <<>>]
PyNum(n) == [k |-> "num", s |-> "", n |-> n, items |-> <<>>]
PyNone == [k |-> "none", s |-> "", n |-> 0, items |-> <<>>]
PyList(items) == [k |-> "list", s |-> "", n |-> 0, items |-> items]
\* a dict is the sequence of its items, each [key |-> a string, val |-> a value]
PyDict(items) == [k |-> "dict", s |-> "", n |-> 0, items |-> items]
Item(key, val) == [key |-> key, val |-> val]

Tok(t, s, n) == [t |-> t, s |-> s, n |-> n]
Punct(c) == Tok(c, "", 0)

RECURSIVE dumps(_)
RECURSIVE DumpElements(_)
RECURSIVE DumpItems(_)
dumps(v) ==
    CASE v.k = "str" -> <<Tok("str", v.s, 0)>>
      [] v.k = "num" -> <<Tok("num", "", v.n)>>
      [] v.k = "none" -> <<Tok("null", "", 0)>>
      [] v.k = "list" -> <<Punct("[")>> \o DumpElements(v.items) \o <<Punct("]")>>
      [] v.k = "dict" -> <<Punct("{")>> \o DumpItems(v.items) \o <<Punct("}")>>
DumpElements(q) ==
    IF Len(q) = 0 THEN <<>>
    ELSE dumps(Head(q)) \o (IF Len(q) = 1 THEN <<>> ELSE <<Punct(",")>> \o DumpElements(Tail(q)))
DumpItems(q) ==
    IF Len(q) = 0 THEN <<>>
    ELSE <<Tok("str", Head(q).key, 0), Punct(":")>> \o dumps(Head(q).val)
         \o (IF Len(q) = 1 THEN <<>> ELSE <<Punct(",")>> \o DumpItems(Tail(q)))

\* the parser: [ok, v, i] is the value that starts at token i and the
\* position after it
ParseFail == [ok |-> FALSE, v |-> PyNone, i |-> 0]
Parsed(v, i) == [ok |-> TRUE, v |-> v, i |-> i]

RECURSIVE ParseValue(_, _)
RECURSIVE ParseElements(_, _, _)
RECURSIVE ParseItems(_, _, _)
ParseValue(t, i) ==
    IF i > Len(t) THEN ParseFail
    ELSE CASE t[i].t = "str" -> Parsed(PyStr(t[i].s), i + 1)
           [] t[i].t = "num" -> Parsed(PyNum(t[i].n), i + 1)
           [] t[i].t = "null" -> Parsed(PyNone, i + 1)
           [] t[i].t = "[" -> IF i < Len(t) /\ t[i + 1].t = "]"
                              THEN Parsed(PyList(<<>>), i + 2)
                              ELSE ParseElements(t, i + 1, <<>>)
           [] t[i].t = "{" -> IF i < Len(t) /\ t[i + 1].t = "}"
                              THEN Parsed(PyDict(<<>>), i + 2)
                              ELSE ParseItems(t, i + 1, <<>>)
           [] OTHER -> ParseFail
ParseElements(t, i, acc) ==
    LET e == ParseValue(t, i)
    IN  IF ~e.ok \/ e.i > Len(t) THEN ParseFail
        ELSE IF t[e.i].t = "," THEN ParseElements(t, e.i + 1, Append(acc, e.v))
        ELSE IF t[e.i].t = "]" THEN Parsed(PyList(Append(acc, e.v)), e.i + 1)
        ELSE ParseFail
ParseItems(t, i, acc) ==
    IF i + 1 > Len(t) \/ t[i].t # "str" \/ t[i + 1].t # ":" THEN ParseFail
    ELSE LET e == ParseValue(t, i + 2)
         IN  IF ~e.ok \/ e.i > Len(t) THEN ParseFail
             ELSE IF t[e.i].t = ","
                  THEN ParseItems(t, e.i + 1, Append(acc, Item(t[i].s, e.v)))
             ELSE IF t[e.i].t = "}"
                  THEN Parsed(PyDict(Append(acc, Item(t[i].s, e.v))), e.i + 1)
             ELSE ParseFail

\* json.loads(text): [raised, v]
loads(t) ==
    LET r == ParseValue(t, 1)
    IN  IF r.ok /\ r.i = Len(t) + 1 THEN [raised |-> FALSE, v |-> r.v]
        ELSE [raised |-> TRUE, v |-> PyNone]


(***************************************************************************)
(* api/datamodels.py : HotelSuggestion, FlightSuggestion, TravelPlan and   *)
(* TripPlanModel.from_travel_plan / to_travel_plan                         *)
(***************************************************************************)
\* dict.get(key, default) on a dict value
Get(d, key, default) ==
    IF \E i \in 1..Len(d.items) : d.items[i].key = key
    THEN d.items[CHOOSE i \in 1..Len(d.items) :
                    /\ d.items[i].key = key
                    /\ \A j \in (i + 1)..Len(d.items) : d.items[j].key # key].val
    ELSE default

\* bool(v) of a Python value
PyTruthy(v) ==
    CASE v.k = "str" -> v.s # ""
      [] v.k = "num" -> v.n # 0
      [] v.k = "none" -> FALSE
      [] OTHER -> Len(v.items) > 0

DefaultHotel ==
    [name |-> "Hotel Name Not Available", price_per_night |-> 0, rating |-> 0,
     location |-> "Location TBD", amenities |-> <<>>]

\* HotelSuggestion(**d): [raised, h]
HotelSuggestion(d) ==
    LET name == Get(d, "name", PyStr(DefaultHotel.name))
        price == Get(d, "price_per_night", PyNum(0))
        rating == Get(d, "rating", PyNum(0))
        location == Get(d, "location", PyStr(DefaultHotel.location))
        amenities == Get(d, "amenities", PyList(<<>>))
        ok == /\ name.k = "str" /\ price.k = "num" /\ rating.k = "num"
              /\ location.k = "str" /\ amenities.k = "list"
              /\ \A i \in 1..Len(amenities.items) : amenities.items[i].k = "str"
    IN  IF ok
        THEN [raised |-> FALSE,
              h |-> [name |-> name.s, price_per_night |-> price.n, rating |-> rating.n,
                     location |-> location.s,
                     amenities |-> [i \in 1..Len(amenities.items) |-> amenities.items[i].s]]]
        ELSE [raised |-> TRUE, h |-> DefaultHotel]

\* h.dict()
HotelDict(h) ==
    PyDict(<<Item("name", PyStr(h.name)), Item("price_per_night", PyNum(h.price_per_night)),
             Item("rating", PyNum(h.rating)), Item("location", PyStr(h.location)),
             Item("amenities", PyList([i \in 1..Len(h.amenities) |-> PyStr(h.amenities[i])]))>>)

DefaultFlight ==
    [airline |-> "Airline TBD", departure_time |-> "Time TBD", arrival_time |-> None,
     price |-> 0, duration |-> "Duration TBD", stops |-> 0]

\* FlightSuggestion(**d): [raised, f]
FlightSuggestion(d) ==
    LET airline == Get(d, "airline", PyStr(DefaultFlight.airline))
        departure == Get(d, "departure_time", PyStr(DefaultFlight.departure_time))
        arrival == Get(d, "arrival_time", PyNone)
        price == Get(d, "price", PyNum(0))
        duration == Get(d, "duration", PyStr(DefaultFlight.duration))
        stops == Get(d, "stops", PyNum(0))
        ok == /\ airline.k = "str" /\ departure.k = "str" /\ arrival.k \in {"str", "none"}
              /\ price.k = "num" /\ duration.k = "str" /\ stops.k = "num"
    IN  IF ok
        THEN [raised |-> FALSE,
              f |-> [airline |-> airline.s, departure_time |-> departure.s,
                     arrival_time |-> IF arrival.k = "none" THEN None ELSE Some(arrival.s),
                     price |-> price.n, duration |-> duration.s, stops |-> stops.n]]
        ELSE [raised |-> TRUE, f |-> DefaultFlight]

\* f.dict()
FlightDict(f) ==
    PyDict(<<Item("airline", PyStr(f.airline)), Item("departure_time", PyStr(f.departure_time)),
             Item("arrival_time", IF f.arrival_time = None THEN PyNone
                                  ELSE PyStr(f.arrival_time[1])),
             Item("price", PyNum(f.price)), Item("duration", PyStr(f.duration)),
             Item("stops", PyNum(f.stops))>>)

\* the dicts among the elements of v, in order: what the loops of
\* validate_hotels / validate_flights keep
DictsOf(v) ==
    IF v.k = "list" THEN SelectSeq(v.items, LAMBDA e : e.k = "dict") ELSE <<>>

\* TravelPlan(itinerary=..., hotels=..., flights=..., daily_budget=...,
\* total_estimated_cost=...) for Python values hotels and flights
TravelPlan(itinerary, hotels, flights, daily_budget, total_estimated_cost) ==
    LET hs == IF PyTruthy(hotels) THEN DictsOf(hotels) ELSE <<>>
        fs == IF PyTruthy(flights) THEN DictsOf(flights) ELSE <<>>
        bad == \/ itinerary.k \notin {"str", "list", "dict"}
               \/ itinerary.k = "list" /\ \E i \in 1..Len(itinerary.items) :
                                               itinerary.items[i].k # "dict"
               \/ hotels.k = "num" /\ hotels.n # 0
               \/ flights.k = "num" /\ flights.n # 0
               \/ \E i \in 1..Len(hs) : HotelSuggestion(hs[i]).raised
               \/ \E i \in 1..Len(fs) : FlightSuggestion(fs[i]).raised
    IN  [raised |-> bad,
         itinerary |-> itinerary,
         hotels |-> IF bad THEN <<>> ELSE [i \in 1..Len(hs) |-> HotelSuggestion(hs[i]).h],
         flights |-> IF bad THEN <<>> ELSE [i \in 1..Len(fs) |-> FlightSuggestion(fs[i]).f],
         daily_budget |-> daily_budget,
         total_estimated_cost |-> total_estimated_cost]

\* from_travel_plan that leaves version to its default
from_travel_plan_DefaultVersion(travel_plan, trip_id, version) ==
    [trip_id |-> trip_id,
     itinerary_json |-> dumps(travel_plan.itinerary),
     hotels_json |-> dumps(PyList([i \in 1..Len(travel_plan.hotels) |->
                                      HotelDict(travel_plan.hotels[i])])),
     flights_json |-> dumps(PyList([i \in 1..Len(travel_plan.flights) |->
                                       FlightDict(travel_plan.flights[i])])),
     daily_budget |-> travel_plan.daily_budget,
     total_estimated_cost |-> OrDefault(travel_plan.total_estimated_cost, 0),
     version |-> 1,
     status |-> "draft"]

\* TripPlanModel.from_travel_plan(travel_plan, trip_id, version)
from_travel_plan(travel_plan, trip_id, version) ==
    [trip_id |-> trip_id,
     itinerary_json |-> dumps(travel_plan.itinerary),
     hotels_json |-> dumps(PyList([i \in 1..Len(travel_plan.hotels) |->
                                      HotelDict(travel_plan.hotels[i])])),
     flights_json |-> dumps(PyList([i \in 1..Len(travel_plan.flights) |->
                                       FlightDict(travel_plan.flights[i])])),
     daily_budget |-> travel_plan.daily_budget,
     total_estimated_cost |-> OrDefault(travel_plan.total_estimated_cost, 0),
     version |-> version,
     status |-> "draft"]

\* TripPlanModel.to_travel_plan(): a TravelPlan, raised when json.loads or
\* the construction raises
to_travel_plan(m) ==
    LET itinerary == IF m.itinerary_json # <<>> THEN loads(m.itinerary_json)
                     ELSE [raised |-> FALSE, v |-> PyStr("Itinerary not available")]
        hotels == IF m.hotels_json # <<>> THEN loads(m.hotels_json)
                  ELSE [raised |-> FALSE, v |-> PyList(<<>>)]
        flights == IF m.flights_json # <<>> THEN loads(m.flights_json)
                   ELSE [raised |-> FALSE, v |-> PyList(<<>>)]
        plan == TravelPlan(itinerary.v, hotels.v, flights.v, m.daily_budget,
                           Some(m.total_estimated_cost))
    IN  [plan EXCEPT !.raised = plan.raised \/ itinerary.raised \/ hotels.raised
                                \/ flights.raised]


(***************************************************************************)
(* A TravelPlan stored as a TripPlanModel and read back                    *)
(***************************************************************************)
SeqsUpTo(S, n) == UNION {[1..k -> S] : k \in 0..n}

\* the TravelPlans stored: string, list and mapping itineraries, up to MaxItems
\* hotels and flights, a total that is set or unset
TravelPlans ==
    LET DayOne == PyDict(<<Item("day", PyStr("1")), Item("activity", PyStr("beach"))>>)
        DayTwo == PyDict(<<Item("day", PyStr("2")), Item("cost", PyNum(100))>>)
        Itineraries ==
            {PyStr(""), PyStr("Day 1: beach")}
            \cup {PyList(q) : q \in SeqsUpTo({DayOne, DayTwo}, MaxItems)}
            \cup {PyDict(<<>>), DayOne,
                  PyDict(<<Item("days", PyList(<<DayOne>>)), Item("note", PyNone)>>)}
        Hotels ==
            {DefaultHotel,
             [name |-> "Taj", price_per_night |-> 120, rating |-> 4, location |-> "Goa",
              amenities |-> <<"wifi", "pool">>]}
        Flights ==
            {DefaultFlight,
             [airline |-> "IndiGo", departure_time |-> "08:00", arrival_time |-> Some("10:00"),
              price |-> 90, duration |-> "2h", stops |-> 1]}
    IN  [raised : {FALSE}, itinerary : Itineraries, hotels : SeqsUpTo(Hotels, MaxItems),
         flights : SeqsUpTo(Flights, MaxItems), daily_budget : {0, 50},
         total_estimated_cost : OptOf({0, 100})]

InitStore ==
    /\ planIn \in [plan : TravelPlans, version : Versions]
    /\ planOut = [stage |-> "new"]
    /\ today = 0 /\ trips = <<>> /\ plans = <<>> /\ chat = <<>>
    /\ ctx = [u \in Users |-> <<>>] /\ ret = [op |-> "init"]
    /\ reqIn = None /\ reqOut = Idle
    /\ tripIn = None /\ tripOut = Idle
    /\ accIn = None /\ accOut = Idle

\* TripPlanModel.from_travel_plan(planIn.plan, 1, planIn.version)
FromTravelPlan ==
    /\ planOut.stage = "new"
    /\ planOut' = [stage |-> "model", model |-> from_travel_plan(planIn.plan, 1, planIn.version)]
    /\ UNCHANGED <<today, trips, plans, chat, ctx, ret, reqIn, reqOut, tripIn, tripOut,
                   planIn, accIn, accOut>>

\* model.to_travel_plan()
ToTravelPlan ==
    /\ planOut.stage = "model"
    /\ planOut' = [stage |-> "plan", model |-> planOut.model,
                   plan |-> to_travel_plan(planOut.model)]
    /\ UNCHANGED <<today, trips, plans, chat, ctx, ret, reqIn, reqOut, tripIn, tripOut,
                   planIn, accIn, accOut>>

NextStore == FromTravelPlan \/ ToTravelPlan

SpecStore == InitStore /\ [][NextStore]_vars

\* what every round trip keeps: the itinerary, the numbers of hotels and of
\* flights, daily_budget, the version and the status "draft"
RoundTripKeeps ==
    /\ ~planOut.plan.raised
    /\ planOut.plan.itinerary = planIn.plan.itinerary
    /\ Len(planOut.plan.hotels) = Len(planIn.plan.hotels)
    /\ Len(planOut.plan.flights) = Len(planIn.plan.flights)
    /\ planOut.plan.daily_budget = planIn.plan.daily_budget
    /\ planOut.model.version = planIn.version
    /\ planOut.model.status = "draft"

lower(s) ==
    LET UpperCase == <<"A", "B", "C", "D", "E", "F", "G", "H", "I", "J", "K", "L", "M", "N", "O", "P", "Q", "R", "S", "T", "U", "V", "W", "X", "Y", "Z">>
        LowerCase == <<"a", "b", "c", "d", "e", "f", "g", "h", "i", "j", "k", "l", "m", "n", "o", "p", "q", "r", "s", "t", "u", "v", "w", "x", "y", "z">>
        LowerChar(c) ==
            IF \E i \in 1..Len(UpperCase) : UpperCase[i] = c
            THEN LowerCase[CHOOSE i \in 1..Len(UpperCase) : UpperCase[i] = c]
            ELSE c
    IN  [i \in 1..Len(s) |-> LowerChar(s[i])]

\* `key in value_lower`
Contains(key, s) ==
    \E i \in 0..(Len(s) - Len(key)) : SubSeq(s, i + 1, i + Len(key)) = key

\* the mapping for combined values from agents, in the order of the dict
accommodation_mapping ==
    <<[key |-> <<"l", "u", "x", "u", "r", "y", " ", "h", "o", "t", "e", "l">>,
       value |-> <<"l", "u", "x", "u", "r", "y">>],
      [key |-> <<"l", "u", "x", "u", "r", "y", " ", "r", "e", "s", "o", "r", "t">>,
       value |-> <<"l", "u", "x", "u", "r", "y">>],
      [key |-> <<"b", "u", "d", "g", "e", "t", " ", "h", "o", "t", "e", "l">>,
       value |-> <<"h", "o", "t", "e", "l">>],
      [key |-> <<"b", "o", "u", "t", "i", "q", "u", "e", " ", "h", "o", "t", "e", "l">>,
       value |-> <<"h", "o", "t", "e", "l">>],
      [key |-> <<"b", "u", "s", "i", "n", "e", "s", "s", " ", "h", "o", "t", "e", "l">>,
       value |-> <<"h", "o", "t", "e", "l">>],
      [key |-> <<"l", "u", "x", "u", "r", "y", " ", "a", "c", "c", "o", "m", "m", "o", "d", "a", "t", "i", "o", "n">>,
       value |-> <<"l", "u", "x", "u", "r", "y">>],
      [key |-> <<"b", "u", "d", "g", "e", "t", " ", "a", "c", "c", "o", "m", "m", "o", "d", "a", "t", "i", "o", "n">>,
       value |-> <<"h", "o", "t", "e", "l">>],
      [key |-> <<"u", "p", "s", "c", "a", "l", "e", " ", "h", "o", "t", "e", "l">>,
       value |-> <<"l", "u", "x", "u", "r", "y">>],
      [key |-> <<"p", "r", "e", "m", "i", "u", "m", " ", "h", "o", "t", "e", "l">>,
       value |-> <<"l", "u", "x", "u", "r", "y">>],
      [key |-> <<"h", "i", "g", "h", "-", "e", "n", "d", " ", "h", "o", "t", "e", "l">>,
       value |-> <<"l", "u", "x", "u", "r", "y">>],
      [key |-> <<"5", "-", "s", "t", "a", "r", " ", "h", "o", "t", "e", "l">>,
       value |-> <<"l", "u", "x", "u", "r", "y">>],
      [key |-> <<"4", "-", "s", "t", "a", "r", " ", "h", "o", "t", "e", "l">>,
       value |-> <<"h", "o", "t", "e", "l">>],
      [key |-> <<"3", "-", "s", "t", "a", "r", " ", "h", "o", "t", "e", "l">>,
       value |-> <<"h", "o", "t", "e", "l">>],
      [key |-> <<"b", "u", "d", "g", "e", "t", " ", "h", "o", "s", "t", "e", "l">>,
       value |-> <<"h", "o", "s", "t", "e", "l">>],
      [key |-> <<"l", "u", "x", "u", "r", "y", " ", "h", "o", "s", "t", "e", "l">>,
       value |-> <<"h", "o", "s", "t", "e", "l">>],
      [key |-> <<"v", "a", "c", "a", "t", "i", "o", "n", " ", "r", "e", "n", "t", "a", "l">>,
       value |-> <<"a", "p", "a", "r", "t", "m", "e", "n", "t">>],
      [key |-> <<"r", "e", "n", "t", "a", "l", " ", "a", "p", "a", "r", "t", "m", "e", "n", "t">>,
       value |-> <<"a", "p", "a", "r", "t", "m", "e", "n", "t">>],
      [key |-> <<"h", "o", "l", "i", "d", "a", "y", " ", "a", "p", "a", "r", "t", "m", "e", "n", "t">>,
       value |-> <<"a", "p", "a", "r", "t", "m", "e", "n", "t">>],
      [key |-> <<"s", "e", "r", "v", "i", "c", "e", "d", " ", "a", "p", "a", "r", "t", "m", "e", "n", "t">>,
       value |-> <<"a", "p", "a", "r", "t", "m", "e", "n", "t">>],
      [key |-> <<"a", "i", "r", "b", "n", "b">>,
       value |-> <<"a", "p", "a", "r", "t", "m", "e", "n", "t">>],
      [key |-> <<"b", "e", "d", " ", "a", "n", "d", " ", "b", "r", "e", "a", "k", "f", "a", "s", "t">>,
       value |-> <<"g", "u", "e", "s", "t", "h", "o", "u", "s", "e">>],
      [key |-> <<"b", "&", "b">>,
       value |-> <<"g", "u", "e", "s", "t", "h", "o", "u", "s", "e">>],
      [key |-> <<"i", "n", "n">>,
       value |-> <<"g", "u", "e", "s", "t", "h", "o", "u", "s", "e">>],
      [key |-> <<"m", "o", "t", "e", "l">>,
       value |-> <<"h", "o", "t", "e", "l">>],
      [key |-> <<"l", "o", "d", "g", "e">>,
       value |-> <<"h", "o", "t", "e", "l">>],
      [key |-> <<"v", "i", "l", "l", "a">>,
       value |-> <<"l", "u", "x", "u", "r", "y">>],
      [key |-> <<"m", "a", "n", "s", "i", "o", "n">>,
       value |-> <<"l", "u", "x", "u", "r", "y">>],
      [key |-> <<"p", "e", "n", "t", "h", "o", "u", "s", "e">>,
       value |-> <<"l", "u", "x", "u", "r", "y">>],
      [key |-> <<"s", "u", "i", "t", "e">>,
       value |-> <<"l", "u", "x", "u", "r", "y">>]>>

\* the Literal of Trip.accommodation_type
Trip_accommodation_type ==
    {<<"h", "o", "t", "e", "l">>,
     <<"r", "e", "s", "o", "r", "t">>,
     <<"h", "o", "s", "t", "e", "l">>,
     <<"a", "p", "a", "r", "t", "m", "e", "n", "t">>,
     <<"g", "u", "e", "s", "t", "h", "o", "u", "s", "e">>,
     <<"l", "u", "x", "u", "r", "y">>,
     <<"o", "w", "n", "_", "p", "l", "a", "c", "e">>,
     <<"f", "r", "i", "e", "n", "d", "_", "p", "l", "a", "c", "e">>,
     <<"o", "f", "f", "i", "c", "i", "a", "l", "_", "a", "c", "c", "o", "m", "m", "o", "d", "a", "t", "i", "o", "n">>,
     <<"b", "u", "d", "g", "e", "t">>,
     <<"f", "a", "m", "i", "l", "y", "-", "f", "r", "i", "e", "n", "d", "l", "y">>,
     <<"b", "u", "s", "i", "n", "e", "s", "s">>,
     <<"y", "o", "u", "t", "h", " ", "h", "o", "s", "t", "e", "l">>}

\* valid_types in Trip.normalize_accommodation_type
Trip_valid_types ==
    {<<"h", "o", "t", "e", "l">>,
     <<"r", "e", "s", "o", "r", "t">>,
     <<"h", "o", "s", "t", "e", "l">>,
     <<"a", "p", "a", "r", "t", "m", "e", "n", "t">>,
     <<"g", "u", "e", "s", "t", "h", "o", "u", "s", "e">>,
     <<"l", "u", "x", "u", "r", "y">>,
     <<"o", "w", "n", "_", "p", "l", "a", "c", "e">>,
     <<"f", "r", "i", "e", "n", "d", "_", "p", "l", "a", "c", "e">>,
     <<"o", "f", "f", "i", "c", "i", "a", "l", "_", "a", "c", "c", "o", "m", "m", "o", "d", "a", "t", "i", "o", "n">>}

\* valid_types in TripRequirements.normalize_accommodation_type
TripRequirements_valid_types ==
    {<<"h", "o", "t", "e", "l">>,
     <<"r", "e", "s", "o", "r", "t">>,
     <<"h", "o", "s", "t", "e", "l">>,
     <<"a", "p", "a", "r", "t", "m", "e", "n", "t">>,
     <<"g", "u", "e", "s", "t", "h", "o", "u", "s", "e">>,
     <<"l", "u", "x", "u", "r", "y">>,
     <<"o", "w", "n", "_", "p", "l", "a", "c", "e">>,
     <<"f", "r", "i", "e", "n", "d", "_", "p", "l", "a", "c", "e">>,
     <<"o", "f", "f", "i", "c", "i", "a", "l", "_", "a", "c", "c", "o", "m", "m", "o", "d", "a", "t", "i", "o", "n">>,
     <<"b", "u", "d", "g", "e", "t">>,
     <<"f", "a", "m", "i", "l", "y", "-", "f", "r", "i", "e", "n", "d", "l", "y">>,
     <<"b", "u", "s", "i", "n", "e", "s", "s">>,
     <<"y", "o", "u", "t", "h", " ", "h", "o", "s", "t", "e", "l">>}

\* the default category
DefaultAccommodation == <<"h", "o", "t", "e", "l">>

\* normalize_accommodation_type: exact match, then the first key of the table
\* contained in the value, then a valid type as it is, then the default
normalize_accommodation_type(value, valid_types) ==
    LET value_lower == lower(value)
        exact == {i \in 1..Len(accommodation_mapping) :
                        accommodation_mapping[i].key = value_lower}
        partial == {i \in 1..Len(accommodation_mapping) :
                        Contains(accommodation_mapping[i].key, value_lower)}
    IN  IF value = <<>> THEN DefaultAccommodation
        ELSE IF exact # {}
        THEN accommodation_mapping[CHOOSE i \in exact : TRUE].value
        ELSE IF partial # {}
        THEN accommodation_mapping[CHOOSE i \in partial : \A j \in partial : i <= j].value
        ELSE IF value_lower \in valid_types THEN value_lower
        ELSE DefaultAccommodation

\* the validator of the model named
NormalizeIn(model, value) ==
    IF model = "Trip" THEN normalize_accommodation_type(value, Trip_valid_types)
    ELSE normalize_accommodation_type(value, TripRequirements_valid_types)

\* the model's own fixed category set
CategoriesOf(model) ==
    IF model = "Trip" THEN Trip_accommodation_type ELSE TripRequirements_valid_types

\* strings no key of the table is contained in and no category equals
Unrecognized == {<<"c", "a", "m", "p", "i", "n", "g">>, <<"t", "e", "n", "t">>, <<"x", "y", "z">>}

\* the values given: every category, every key of the table, the
\* unrecognized strings, and free-form values (empty, mixed case, several
\* keys at once)
AccommodationInputs ==
    Trip_accommodation_type \cup {accommodation_mapping[i].key : i \in 1..Len(accommodation_mapping)}
        \cup Unrecognized
        \cup {<<>>, <<"L", "u", "x", "u", "r", "y", " ", "H", "o", "t", "e", "l">>,
              <<"c", "h", "e", "a", "p", " ", "m", "o", "t", "e", "l", " ", "i", "n", "n">>,
              <<"b", "e", "g", "i", "n", "n", "i", "n", "g">>,
              <<"b", "u", "d", "g", "e", "t", " ", "h", "o", "s", "t", "e", "l", " ", "s", "u", "i", "t", "e">>,
              <<"H", "O", "S", "T", "E", "L">>}

InitAcc ==
    /\ accIn \in [model : {"Trip", "TripRequirements"}, value : AccommodationInputs]
    /\ accOut = Idle
    /\ today = 0 /\ trips = <<>> /\ plans = <<>> /\ chat = <<>>
    /\ ctx = [u \in Users |-> <<>>] /\ ret = [op |-> "init"]
    /\ reqIn = None /\ reqOut = Idle
    /\ tripIn = None /\ tripOut = Idle
    /\ planIn = None /\ planOut = Idle

\* the validator runs on the value given
Normalize ==
    /\ accOut = Idle
    /\ accOut' = [stage |-> "once", value |-> NormalizeIn(accIn.model, accIn.value)]
    /\ UNCHANGED <<today, trips, plans, chat, ctx, ret, reqIn, reqOut, tripIn, tripOut,
                   planIn, planOut, accIn>>

\* the validator runs on its own result
Renormalize ==
    /\ accOut.stage = "once"
    /\ accOut' = [stage |-> "twice", first |-> accOut.value,
                  value |-> NormalizeIn(accIn.model, accOut.value)]
    /\ UNCHANGED <<today, trips, plans, chat, ctx, ret, reqIn, reqOut, tripIn, tripOut,
                   planIn, planOut, accIn>>

NextAcc == Normalize \/ Renormalize

SpecAcc == InitAcc /\ [][NextAcc]_vars

\* C16: in Trip and in TripRequirements the normalization is idempotent,
\* returns every value of the model's own category set unchanged, gives
\* "luxury" for "luxury hotel" and "hotel" for an unrecognized string
C16_NormalizationContract ==
    /\ accOut.stage = "twice" => accOut.value = accOut.first
    /\ accOut.stage = "once" =>
        /\ accIn.value \in CategoriesOf(accIn.model) => accOut.value = accIn.value
        /\ accIn.value = <<"l", "u", "x", "u", "r", "y", " ", "h", "o", "t", "e", "l">>
              => accOut.value = <<"l", "u", "x", "u", "r", "y">>
        /\ accIn.value \in Unrecognized => accOut.value = DefaultAccommodation

(***************************************************************************)
(* Planning when the extractor's language model answers with text that     *)
(* holds no JSON object                                                    *)
(***************************************************************************)
\* the plan-trip endpoint when the reply to either extractor holds no JSON
\* object
NextExtract ==
    LET Unparseable == [parse |-> FALSE, data |-> EmptyData]
    IN  \/ \E m \in Utterances : CrewPlanTrip(1, m, info_collector(Unparseable))
        \/ \E m \in Utterances : AutoGenPlanTrip(1, m, AutoGenExtractions[ctx[1], m, Unparseable])
        \/ \E q \in TripRequests : start_new_trip(1, q)
        \/ Midnight

SpecExtract == Init /\ [][NextExtract]_vars

\* C17: when the reply to the extraction holds no parseable payload, the
\* planning call does not raise and ends INCOMPLETE, with the extractor's
\* missing_fields ["origin", "destination"]
C17_UnparseableEndsIncomplete ==
    (ret.op = "plan_trip" /\ ret.phase \in {"phase2_crewai", "phase3_autogen"}) =>
        /\ ~ret.raised
        /\ ret.result.status = "INCOMPLETE"
        /\ ret.result.missing_fields = Some(<<"origin", "destination">>)

(***************************************************************************)
(* phases/phase2_crewai/trip_agents.py : planner and optimizer             *)
(* The text of a reply is a sequence of tokens: JSON tokens, words of      *)
(* prose and ``` fences.                                                   *)
(***************************************************************************)
\* raw.replace("```json", "").replace("```", "")
StripFences(text) == SelectSeq(text, LAMBDA t : t.t # "fence")

\* re.sub(r',\s*}', '}', raw) and re.sub(r',\s*]', ']', raw)
DropTrailingCommas(text) ==
    LET keep == {i \in 1..Len(text) :
                    ~(text[i].t = "," /\ i < Len(text) /\ text[i + 1].t \in {"}", "]"})}
        RECURSIVE Kept(_)
        Kept(i) == IF i > Len(text) THEN <<>>
                   ELSE (IF i \in keep THEN <<text[i]>> ELSE <<>>) \o Kept(i + 1)
    IN  Kept(1)

\* raw[raw.find("{") : raw.rfind("}") + 1]
Braced(raw) ==
    LET opens == {i \in 1..Len(raw) : raw[i].t = "{"}
        closes == {i \in 1..Len(raw) : raw[i].t = "}"}
    IN  IF opens = {} \/ closes = {} THEN <<>>
        ELSE SubSeq(raw, CHOOSE i \in opens : \A j \in opens : i <= j,
                         CHOOSE i \in closes : \A j \in closes : j <= i)

\* the placeholder of the hard validation guard for hotels
FallbackHotel(requirements) ==
    PyDict(<<Item("name", PyStr("Tool fallback hotel")), Item("price_per_night", PyNum(0)),
             Item("rating", PyNum(0)),
             Item("location", IF requirements.destination = None THEN PyNone
                              ELSE PyStr(requirements.destination[1])),
             Item("amenities", PyList(<<>>))>>)

\* the placeholder of the hard validation guard for flights
FallbackFlight(requirements) ==
    PyDict(<<Item("airline", PyStr("Tool fallback")),
             Item("departure", PyNum(requirements.trip_startdate[1])),
             Item("arrival", PyNum(requirements.trip_enddate[1]))>>)

\* TravelPlan(**data)
TravelPlanOf(data) ==
    LET daily == Get(data, "daily_budget", PyNum(0))
        total == Get(data, "total_estimated_cost", PyNone)
        plan == TravelPlan(Get(data, "itinerary", PyStr("Itinerary will be provided")),
                           Get(data, "hotels", PyList(<<>>)),
                           Get(data, "flights", PyList(<<>>)),
                           daily.n,
                           IF total.k = "none" THEN None ELSE Some(total.n))
    IN  [plan EXCEPT !.raised = plan.raised \/ daily.k # "num" \/ total.k \notin {"num", "none"}]

\* the plan of the except branch
FallbackPlan(requirements) ==
    TravelPlan(PyStr("Fallback plan"), PyList(<<>>), PyList(<<>>), 0, requirements.budget)

\* data with key set to value: data[key] = value
SetItem(data, key, value) ==
    PyDict(SelectSeq(data.items, LAMBDA it : it.key # key) \o <<Item(key, value)>>)

\* planner(requirements), for what crew.kickoff() does: kickoff.raised when
\* it raises, kickoff.text its result otherwise
planner(requirements, kickoff) ==
    LET parsed == loads(Braced(DropTrailingCommas(StripFences(kickoff.text))))
        data == parsed.v
        adapter_raises == /\ \E i \in 1..Len(data.items) : data.items[i].key = "trip"
                          /\ Get(data, "trip", PyNone).k # "dict"
        d1 == IF PyTruthy(Get(data, "hotels", PyNone)) THEN data
              ELSE SetItem(data, "hotels", PyList(<<FallbackHotel(requirements)>>))
        d2 == IF PyTruthy(Get(d1, "flights", PyNone)) THEN d1
              ELSE SetItem(d1, "flights", PyList(<<FallbackFlight(requirements)>>))
        plan == TravelPlanOf(d2)
    IN  IF kickoff.raised THEN [FallbackPlan(requirements) EXCEPT !.raised = TRUE]
        ELSE IF parsed.raised \/ data.k # "dict" \/ adapter_raises \/ plan.raised
             THEN FallbackPlan(requirements)
        ELSE plan

BasicOptimization ==
    [raised |-> FALSE, recommendations |-> <<"Basic optimization applied">>, cost_savings |-> 0]

\* OptimizationResult(**data)
OptimizationResult(data) ==
    LET recs == Get(data, "recommendations", PyList(<<>>))
        savings == Get(data, "cost_savings", PyNum(0))
        bad == \/ data.k # "dict"
               \/ recs.k # "list"
               \/ \E i \in 1..Len(recs.items) : recs.items[i].k # "str"
               \/ savings.k # "num"
    IN  IF bad THEN [raised |-> TRUE, recommendations |-> <<>>, cost_savings |-> 0]
        ELSE [raised |-> FALSE,
              recommendations |-> [i \in 1..Len(recs.items) |-> recs.items[i].s],
              cost_savings |-> savings.n]

\* optimizer(plan), for what crew.kickoff() does
optimizer(plan, kickoff) ==
    LET parsed == loads(kickoff.text)
        result == OptimizationResult(parsed.v)
    IN  IF kickoff.raised THEN [BasicOptimization EXCEPT !.raised = TRUE]
        ELSE IF parsed.raised \/ result.raised THEN BasicOptimization
        ELSE result

(***************************************************************************)
(* The planner and the optimizer on every reply of their language models   *)
(***************************************************************************)
BuildRequirements ==
    [destination : {Some("Goa")}, budget : {Some(100), Some(40000)},
     trip_startdate : {Some(2)}, trip_enddate : {Some(3)}]

\* what crew.kickoff() does, for the planner and for the optimizer: it raises,
\* or returns a text: one that holds no JSON object, an object as JSON, or
\* (planner) an object inside ``` fences after a word of prose, with a comma
\* before its closing brace
Kickoffs ==
    LET Word(w) == Tok("word", w, 0)
        Fence == Tok("fence", "", 0)
        Taj == PyDict(<<Item("name", PyStr("Taj")), Item("price_per_night", PyNum(120))>>)
        IndiGo == PyDict(<<Item("airline", PyStr("IndiGo")), Item("price", PyNum(90))>>)
        ReplyItems(key) ==
            CASE key = "itinerary" -> {<<>>, <<Item(key, PyStr("Day 1: beach"))>>}
              [] key = "hotels" -> {<<>>, <<Item(key, PyList(<<>>))>>, <<Item(key, PyNone)>>,
                                    <<Item(key, PyList(<<Taj>>))>>,
                                    <<Item(key, PyList(<<PyStr("Taj")>>))>>}
              [] key = "flights" -> {<<>>, <<Item(key, PyList(<<>>))>>,
                                     <<Item(key, PyList(<<IndiGo>>))>>,
                                     <<Item(key, PyList(<<IndiGo, IndiGo>>))>>}
              [] key = "daily_budget" -> {<<>>, <<Item(key, PyNum(50))>>,
                                          <<Item(key, PyStr("cheap"))>>}
              [] key = "total_estimated_cost" -> {<<>>, <<Item(key, PyNum(100))>>}
        PlanDicts ==
            {PyDict(i \o h \o f \o d \o t) :
                i \in ReplyItems("itinerary"), h \in ReplyItems("hotels"),
                f \in ReplyItems("flights"), d \in ReplyItems("daily_budget"),
                t \in ReplyItems("total_estimated_cost")}
            \cup {PyDict(<<Item("trip", PyStr("Goa"))>>),
                  PyDict(<<Item("trip", PyDict(<<Item("hotels", PyList(<<Taj>>))>>))>>)}
        TrailingComma(text) ==
            IF Len(text) > 2
            THEN SubSeq(text, 1, Len(text) - 1) \o <<Punct(","), Punct("}")>>
            ELSE text
        NoObject == {<<>>, <<Word("Sorry")>>, <<Punct("{"), Word("hotels")>>,
                     <<Punct("}"), Punct("{")>>}
        Answer(text) == [raised |-> FALSE, text |-> text]
        Failed == [raised |-> TRUE, text |-> <<>>]
    IN  [planner |->
            {Failed}
            \cup {Answer(t) : t \in NoObject}
            \cup {Answer(dumps(d)) : d \in PlanDicts}
            \cup {Answer(<<Word("Here"), Fence>> \o TrailingComma(dumps(d)) \o <<Fence>>) :
                    d \in PlanDicts},
         optimizer |->
            {Failed}
            \cup {Answer(t) : t \in NoObject}
            \cup {Answer(dumps(d)) :
                    d \in {PyDict(<<>>), PyList(<<>>), PyStr("cheaper"),
                           PyDict(<<Item("recommendations", PyList(<<PyStr("Take the bus")>>)),
                                    Item("cost_savings", PyNum(10))>>),
                           PyDict(<<Item("recommendations", PyStr("Take the bus"))>>),
                           PyDict(<<Item("cost_savings", PyStr("some"))>>)}}
            \cup {Answer(<<Fence>> \o dumps(PyDict(<<>>)) \o <<Fence>>)}]

InitBuild ==
    /\ planIn \in [requirements : BuildRequirements, kickoff : Kickoffs.planner]
    /\ planOut = [stage |-> "new"]
    /\ today = 0 /\ trips = <<>> /\ plans = <<>> /\ chat = <<>>
    /\ ctx = [u \in Users |-> <<>>] /\ ret = [op |-> "init"]
    /\ reqIn = None /\ reqOut = Idle
    /\ tripIn = None /\ tripOut = Idle
    /\ accIn = None /\ accOut = Idle

\* plan_result = planner(requirements)
Planner ==
    /\ planOut.stage = "new"
    /\ planOut' = [stage |-> "planned", plan |-> planner(planIn.requirements, planIn.kickoff)]
    /\ UNCHANGED <<today, trips, plans, chat, ctx, ret, reqIn, reqOut, tripIn, tripOut,
                   planIn, accIn, accOut>>

\* opt_result = optimizer(plan_result), reached when the planner returned
Optimizer ==
    /\ planOut.stage = "planned" /\ ~planOut.plan.raised
    /\ \E kickoff \in Kickoffs.optimizer :
          planOut' = [stage |-> "optimized", plan |-> planOut.plan, kickoff |-> kickoff,
                      opt |-> optimizer(planOut.plan, kickoff)]
    /\ UNCHANGED <<today, trips, plans, chat, ctx, ret, reqIn, reqOut, tripIn, tripOut,
                   planIn, accIn, accOut>>

NextBuild == Planner \/ Optimizer

SpecBuild == InitBuild /\ [][NextBuild]_vars

\* the planner returned a plan
PlannerReturned == planOut.stage = "planned" /\ ~planOut.plan.raised

\* C18: whatever the planner's language model answered, the TravelPlan the
\* planner returns has at least one hotel and at least one flight
C18_PlanNeverEmpty ==
    PlannerReturned => (Len(planOut.plan.hotels) >= 1 /\ Len(planOut.plan.flights) >= 1)

\* C19: no failure inside the planner or the optimizer reaches the caller as
\* an exception; the planner returns a plan, and the optimizer returns the
\* result it parsed or else the single recommendation "Basic optimization
\* applied"
C19_FailuresStayInside ==
    /\ planOut.stage = "planned" => ~planOut.plan.raised
    /\ planOut.stage = "optimized" =>
          /\ ~planOut.opt.raised
          /\ (planOut.kickoff.raised \/ loads(planOut.kickoff.text).raised)
                => planOut.opt.recommendations = <<"Basic optimization applied">>

\* C20: the plan-trip and approve endpoints, for every phase and every
\* outcome of the orchestrator, answer with an object that has a success
\* flag, never with null; an operation that did not succeed answers
\* success False together with an error message or a status tag
C20_StructuredResponse ==
    /\ ret.op \in {"plan_trip", "continue_trip_approval", "unsupported"} => ~ret.api.null
    /\ ret.op = "unsupported" => (~ret.api.success /\ ret.api.error)
    /\ ret.op = "plan_trip" =>
          /\ ret.raised => (~ret.api.success /\ ret.api.error)
          /\ ~ret.api.success => (ret.api.error \/ ret.result.status # "")
    /\ (ret.op = "continue_trip_approval" /\ (ret.raised \/ ~ret.success)) =>
          (~ret.api.success /\ ret.api.error)

(***************************************************************************)
(* The order of the agents within one plan_trip call                       *)
(***************************************************************************)
\* the planner or the debate ran only on complete requirements whose start
\* date was after the day of the call
PlannerOnlyWhenReady ==
    (\E i \in 1..Len(ret.steps) : ret.steps[i] = "planner")
        => (ret.extracted.all_six /\ ret.extracted.start_after_today)

\* C21 as stated: in both orchestrators the agents run one after the other,
\* extractor, then plan builder, then optimizer, each at most once
C21_Original ==
    (ret.op = "plan_trip" /\ ret.phase \in Orchestrated) =>
        /\ Len(ret.steps) <= 3
        /\ ret.steps = SubSeq(Pipeline, 1, Len(ret.steps))
        /\ PlannerOnlyWhenReady

\* C21: a CrewAI call runs the extractor, then the plan builder, then the
\* optimizer, each at most once; an AutoGen call runs the extractor and then
\* the debate, in which planner and optimizer take turns, planner first; in
\* neither does the planner run when the requirements are incomplete or the
\* start date is not in the future
C21_StepsOrdered ==
    (ret.op = "plan_trip" /\ ret.phase \in Orchestrated) =>
        /\ Len(ret.steps) >= 1 /\ ret.steps[1] = "info_collector"
        /\ ret.phase = "phase2_crewai" =>
              (Len(ret.steps) <= 3 /\ ret.steps = SubSeq(Pipeline, 1, Len(ret.steps)))
        /\ ret.phase = "phase3_autogen" =>
              \A i \in 2..Len(ret.steps) :
                  ret.steps[i] = (IF i % 2 = 0 THEN "planner" ELSE "optimizer")
        /\ PlannerOnlyWhenReady

\* an AutoGen call planned a trip in a debate where the planner spoke again
\* after the optimizer, a day after an earlier call
C21_Witness ==
    /\ ret.op = "plan_trip" /\ ret.phase = "phase3_autogen"
    /\ ret.result.success
    /\ ret.steps = <<"info_collector", "planner", "optimizer", "planner">>
    /\ today = 1 /\ ret.extracted.start_after_today

(***************************************************************************)
(* info_collector on parseable replies, whatever their numbers hold        *)
(***************************************************************************)
InitCollect ==
    /\ reqIn \in {[parse |-> TRUE,
                   data |-> [BaseData EXCEPT !.no_of_adults = a, !.no_of_children = c,
                                             !.budget = b]] :
                    a \in KeyValues("no_of_adults") \cup {JNum(2)},
                    c \in KeyValues("no_of_children"),
                    b \in KeyValues("budget") \cup {JNum(100)}}
    /\ reqOut = Idle
    /\ today = 0 /\ trips = <<>> /\ plans = <<>> /\ chat = <<>>
    /\ ctx = [u \in Users |-> <<>>] /\ ret = [op |-> "init"]
    /\ tripIn = None /\ tripOut = Idle
    /\ planIn = None /\ planOut = Idle
    /\ accIn = None /\ accOut = Idle

\* info_result = info_collector(context_input), for the reply reqIn
Collect ==
    /\ reqOut = Idle
    /\ reqOut' = [stage |-> "collected", req |-> info_collector(reqIn)]
    /\ UNCHANGED <<today, trips, plans, chat, ctx, ret, reqIn, tripIn, tripOut,
                   planIn, planOut, accIn, accOut>>

SpecCollect == InitCollect /\ [][Collect]_vars

\* C22: for every parseable payload the requirements info_collector returns
\* have no_of_adults >= 1, no_of_children >= 0 and a budget that is a number
\* or absent
C22_CountsInRange ==
    (reqOut.stage = "collected" /\ ~reqOut.req.raised) =>
        /\ reqOut.req.no_of_adults # None /\ reqOut.req.no_of_adults[1] >= 1
        /\ reqOut.req.no_of_children >= 0
        /\ Len(reqOut.req.budget) <= 1

(***************************************************************************)
(* phases/phase2_crewai/trip_orchestrator.py : _build_context              *)
(* The content of a message is the sequence of its characters.             *)
(***************************************************************************)
\* get_recent_chat_by_user(user_id, limit): the last `limit` rows of the
\* user by id, oldest first
get_recent_chat_by_user(c, user_id, limit) ==
    LET mine == SelectSeq(c, LAMBDA row : row.user_id = user_id)
    IN  SubSeq(mine, IF Len(mine) > limit THEN Len(mine) - limit + 1 ELSE 1, Len(mine))

\* _build_context(user_id, new_input) over the chat_history rows c; a line
\* "User: x" or "Assistant: x" is [label, content]
_build_context(c, user_id, new_input) ==
    LET trigger_words == <<<<"p", "l", "a", "n">>, <<"n", "e", "w", " ", "t", "r", "i", "p">>,
                           <<"s", "t", "a", "r", "t", " ", "t", "r", "i", "p">>,
                           <<"p", "l", "a", "n", " ", "a", " ", "t", "r", "i", "p">>>>
        history == get_recent_chat_by_user(c, user_id, 6)
        convo == [i \in 1..Len(history) |->
                    [label |-> IF history[i].role = "user" THEN "User" ELSE "Assistant",
                     content |-> history[i].content]]
    IN  IF \E i \in 1..Len(trigger_words) : Contains(trigger_words[i], lower(new_input))
        THEN <<[label |-> "User", content |-> new_input]>>
        ELSE Append(convo, [label |-> "User", content |-> new_input])

\* the chat_history tables: up to MaxRows rows of two users, of both roles,
\* of several trips and phases; and the new messages
InitContext ==
    /\ chat \in SeqsUpTo({ChatRow(None, 1, "user", "phase2_crewai", <<"h", "i">>),
                          ChatRow(Some(1), 1, "assistant", "phase3_autogen", <<"o", "k">>),
                          ChatRow(None, 2, "user", "phase2_crewai", <<"g", "o", "a">>)}, MaxRows)
    /\ ret = [op |-> "init"]
    /\ today = 0 /\ trips = <<>> /\ plans = <<>>
    /\ ctx = [u \in Users |-> <<>>]
    /\ reqIn = None /\ reqOut = Idle
    /\ tripIn = None /\ tripOut = Idle
    /\ planIn = None /\ planOut = Idle
    /\ accIn = None /\ accOut = Idle

\* plan_trip up to the call of info_collector: the message is saved, then
\* the context is built
BuildContext(user_id, user_input) ==
    /\ ret.op = "init"
    /\ chat' = Append(chat, ChatRow(None, user_id, "user", "phase2_crewai", user_input))
    /\ ret' = [op |-> "build_context", user_id |-> user_id, user_input |-> user_input,
               context |-> _build_context(chat', user_id, user_input)]
    /\ UNCHANGED <<today, trips, plans, ctx, reqIn, reqOut, tripIn, tripOut,
                   planIn, planOut, accIn, accOut>>

NextContext ==
    \E u \in Users, m \in {<<"t", "o", " ", "g", "o", "a">>, <<"M", "y", " ", "P", "l", "a", "n", "s">>, <<"a", " ", "N", "e", "w", " ", "T", "r", "i", "p">>} :
        BuildContext(u, m)

SpecContext == InitContext /\ [][NextContext]_vars

\* the new message holds one of the trigger phrases, in any case of letters
Triggers(m) ==
    \E w \in {<<"p", "l", "a", "n">>, <<"n", "e", "w", " ", "t", "r", "i", "p">>,
              <<"s", "t", "a", "r", "t", " ", "t", "r", "i", "p">>,
              <<"p", "l", "a", "n", " ", "a", " ", "t", "r", "i", "p">>} :
        Contains(w, lower(m))

RECURSIVE sum(_)
\* sum(q) of a sequence of numbers
sum(q) == IF q = <<>> THEN 0 ELSE q[1] + sum(Tail(q))

\* datetime.fromisoformat(s): [raised, day], the day counted within March 2026
fromisoformat(s) ==
    CASE s = "2026-03-14" -> [raised |-> FALSE, day |-> 14]
      [] s = "2026-03-15" -> [raised |-> FALSE, day |-> 15]
      [] s = "2026-03-18" -> [raised |-> FALSE, day |-> 18]
      [] OTHER -> [raised |-> TRUE, day |-> 0]

\* hotel_cost that counts every hotel for one night
hotel_cost_OneNight(hotels) ==
    sum([i \in 1..Len(hotels) |-> hotels[i].price_per_night])

\* sum(h.get("price_per_night", 0) * h.get("nights", 0) for h in hotels)
hotel_cost(hotels) ==
    sum([i \in 1..Len(hotels) |->
            hotels[i].price_per_night
            * (IF hotels[i].nights = None THEN 0 ELSE hotels[i].nights[1])])

\* plan_trip from final_plan_dict = debate["final_plan"] to the plan of the
\* result: [raised, plan]
response_plan(final_plan_dict) ==
    LET keys == <<"itinerary", "hotels", "flights", "daily_budget", "total_estimated_cost">>
        key_error == \E i \in 1..Len(keys) :
                        \A j \in 1..Len(final_plan_dict.items) :
                            final_plan_dict.items[j].key # keys[i]
        travel_plan == TravelPlanOf(final_plan_dict)
        trip_ctx == Get(final_plan_dict, "trip_context", PyDict(<<>>))
        start_date == Get(trip_ctx, "start_date", PyNone)
        end_date == Get(trip_ctx, "end_date", PyNone)
        dated == PyTruthy(start_date) /\ PyTruthy(end_date)
        date_error == dated /\ (\/ start_date.k # "str" \/ end_date.k # "str"
                                \/ fromisoformat(start_date.s).raised
                                \/ fromisoformat(end_date.s).raised)
        nights == fromisoformat(end_date.s).day - fromisoformat(start_date.s).day
        hotels == [i \in 1..Len(travel_plan.hotels) |->
                      [name |-> travel_plan.hotels[i].name,
                       price_per_night |-> travel_plan.hotels[i].price_per_night,
                       rating |-> travel_plan.hotels[i].rating,
                       location |-> travel_plan.hotels[i].location,
                       amenities |-> travel_plan.hotels[i].amenities,
                       nights |-> IF dated THEN Some(nights) ELSE None]]
        itinerary == travel_plan.itinerary
        allocation(d) == Get(d, "budget_allocation", PyNum(0))
        itinerary_error ==
            \/ itinerary.k = "str" /\ itinerary.s # ""
            \/ itinerary.k = "dict" /\ itinerary.items # <<>>
            \/ itinerary.k = "list" /\ \E i \in 1..Len(itinerary.items) :
                                           allocation(itinerary.items[i]).k # "num"
        flight_cost == sum([i \in 1..Len(travel_plan.flights) |-> travel_plan.flights[i].price])
        activity_cost == sum([i \in 1..Len(itinerary.items) |-> allocation(itinerary.items[i]).n])
        total_estimated_cost == flight_cost + hotel_cost(hotels) + activity_cost
        itinerary_days == Len(itinerary.items)
        raised == \/ key_error \/ travel_plan.raised \/ trip_ctx.k # "dict"
                  \/ date_error \/ itinerary_error
    IN  IF raised THEN [raised |-> TRUE, plan |-> None]
        ELSE [raised |-> FALSE,
              plan |-> Some([itinerary |-> itinerary,
                             hotels |-> hotels,
                             flights |-> travel_plan.flights,
                             trip_context |-> trip_ctx,
                             total_estimated_cost |-> total_estimated_cost,
                             daily_budget |-> IF itinerary_days > 0
                                              THEN total_estimated_cost \div itinerary_days
                                              ELSE travel_plan.daily_budget])]

\* the final plans of the debate: itineraries that are days with and without
\* a budget_allocation or a text, hotels that do and do not name their
\* nights, flights, a trip context with both, one or no usable date, and a
\* total and a daily budget of the model's own
InitResponse ==
    LET Day(n) == PyDict(<<Item("day", PyNum(n)), Item("budget_allocation", PyNum(50 * n))>>)
        FreeDay == PyDict(<<Item("day", PyNum(3))>>)
        Itineraries == {PyStr(""), PyStr("Day 1: beach")}
                       \cup {PyList(q) : q \in SeqsUpTo({Day(1), Day(2), FreeDay}, MaxItems)}
        Hotel(price) == PyDict(<<Item("name", PyStr("Taj")), Item("price_per_night", PyNum(price))>>)
        Stay == PyDict(<<Item("name", PyStr("Inn")), Item("price_per_night", PyNum(85)),
                         Item("nights", PyNum(9))>>)
        Hotels == {PyList(q) : q \in SeqsUpTo({Hotel(100), Stay}, MaxItems)}
        Flight == PyDict(<<Item("airline", PyStr("Indigo")), Item("price", PyNum(200))>>)
        Flights == {PyList(q) : q \in SeqsUpTo({Flight}, MaxItems)}
        Context(a, b) == <<Item("trip_context",
                                PyDict(<<Item("start_date", PyStr(a)), Item("end_date", PyStr(b))>>))>>
        Contexts3 == {<<>>, Context("2026-03-15", "2026-03-18"), Context("2026-03-14", "2026-03-15"),
                      Context("2026-03-15", ""), Context("2026-03-15", "next week")}
    IN  /\ planIn \in {PyDict(<<Item("itinerary", i), Item("hotels", h), Item("flights", f),
                                Item("daily_budget", PyNum(1)),
                                Item("total_estimated_cost", PyNum(999))>> \o c) :
                          i \in Itineraries, h \in Hotels, f \in Flights, c \in Contexts3}
        /\ planOut = [stage |-> "new"]
        /\ today = 0 /\ trips = <<>> /\ plans = <<>> /\ chat = <<>>
        /\ ctx = [u \in Users |-> <<>>] /\ ret = [op |-> "init"]
        /\ reqIn = None /\ reqOut = Idle
        /\ tripIn = None /\ tripOut = Idle
        /\ accIn = None /\ accOut = Idle

\* plan_trip after a debate that ended in consensus on planIn
Respond ==
    /\ planOut.stage = "new"
    /\ planOut' = [stage |-> "response", final_plan |-> planIn,
                   result |-> response_plan(planIn)]
    /\ UNCHANGED <<today, trips, plans, chat, ctx, ret, reqIn, reqOut, tripIn, tripOut,
                   planIn, accIn, accOut>>

SpecResponse == InitResponse /\ [][Respond]_vars

\* the figures of the final plan as the model wrote them: the prices of the
\* flights, the nightly prices of the hotels, the allocations of the days and
\* the days between the two dates of the trip context, if it has both
Written(final_plan) ==
    LET get(d, key) == Get(d, key, PyNum(0)).n
        of(key) == Get(final_plan, key, PyList(<<>>)).items
        trip_ctx == Get(final_plan, "trip_context", PyDict(<<>>))
        a == Get(trip_ctx, "start_date", PyStr("")).s
        b == Get(trip_ctx, "end_date", PyStr("")).s
    IN  [flights |-> sum([i \in 1..Len(of("flights")) |-> get(of("flights")[i], "price")]),
         nightly |-> sum([i \in 1..Len(of("hotels")) |-> get(of("hotels")[i], "price_per_night")]),
         activities |-> sum([i \in 1..Len(of("itinerary")) |->
                                get(of("itinerary")[i], "budget_allocation")]),
         days |-> Len(of("itinerary")),
         dated |-> a # "" /\ b # "",
         nights |-> fromisoformat(b).day - fromisoformat(a).day]

\* C24 as stated: in a successful result the total is the flight prices plus
\* every hotel's nightly price times the days between the start and the end
\* date of the trip context plus the allocations of the itinerary, and the
\* daily budget of a non-empty itinerary is that total integer-divided by its
\* days
C24_Original ==
    (planOut.stage = "response" /\ ~planOut.result.raised) =>
        LET w == Written(planOut.final_plan)
            plan == planOut.result.plan[1]
        IN  /\ w.dated
            /\ plan.total_estimated_cost = w.flights + w.nightly * w.nights + w.activities
            /\ w.days > 0 => plan.daily_budget = plan.total_estimated_cost \div w.days

\* C24, amended: the hotels count with the days between the two dates when
\* the trip context has both, and with nothing when it lacks one; the daily
\* budget of a non-empty itinerary is the total integer-divided by its days,
\* and that of an empty one is the figure the model wrote
C24_Reconciled ==
    (planOut.stage = "response" /\ ~planOut.result.raised) =>
        LET w == Written(planOut.final_plan)
            plan == planOut.result.plan[1]
            total == w.flights + (IF w.dated THEN w.nightly * w.nights ELSE 0) + w.activities
        IN  /\ plan.total_estimated_cost = total
            /\ plan.daily_budget =
                  (IF w.days > 0 THEN total \div w.days
                   ELSE Get(planOut.final_plan, "daily_budget", PyNone).n)

\* a successful result for a dated plan with a hotel, a flight and two days,
\* whose figures differ from the ones the model wrote
C24_Witness ==
    /\ planOut.stage = "response" /\ ~planOut.result.raised
    /\ Written(planOut.final_plan).dated
    /\ Written(planOut.final_plan).nights > 1
    /\ Written(planOut.final_plan).nightly > 0
    /\ Written(planOut.final_plan).flights > 0
    /\ Written(planOut.final_plan).days > 1
    /\ planOut.result.plan[1].total_estimated_cost % Written(planOut.final_plan).days # 0

(***************************************************************************)
(* db/db_utils.py when the store fails: each data-access function with a   *)
(* store that serves the statement or raises sqlite3.Error on it           *)
(***************************************************************************)
\* the data-access functions whose body is inside try/except Exception
catches == {"update_trip_plan_status"}

\* one call of a data-access function; a statement that fails changes no row
DataAccess(fn, fails) ==
    LET trip == CHOOSE q \in TripRequests :
                    q.trip_startdate = Some(MaxDay - 1) /\ q.trip_enddate = Some(MaxDay)
        done(value) == [op |-> fn, failed |-> fails,
                        raised |-> fails /\ fn \notin catches,
                        value |-> IF fails THEN IF fn \in catches THEN "False" ELSE "none"
                                  ELSE value]
    IN  /\ CASE fn = "create_trip" ->
                   /\ Len(trips) < MaxTrips
                   /\ trips' = IF fails THEN trips ELSE create_trip(trips, trip)
                   /\ ret' = done("id")
                   /\ UNCHANGED <<plans, chat>>
              [] fn = "update_trip_status" ->
                   /\ \E t \in TripIds, st \in {"in_progress", "confirmed", "draft"} :
                         trips' = IF fails THEN trips ELSE update_trip_status(trips, t, st)
                   /\ ret' = done("None")
                   /\ UNCHANGED <<plans, chat>>
              [] fn = "save_chat_message" ->
                   /\ Len(chat) < MaxChat
                   /\ chat' = IF fails THEN chat
                              ELSE Append(chat, ChatRow(None, 1, "user", "phase2_crewai", Hello))
                   /\ ret' = done("id")
                   /\ UNCHANGED <<trips, plans>>
              [] fn = "create_trip_plan" ->
                   /\ Len(plans) < MaxPlans
                   /\ \E t \in TripIds, v \in Versions :
                         plans' = IF fails THEN plans ELSE save_travel_plan_to_db(plans, t, v)
                   /\ ret' = done("id")
                   /\ UNCHANGED <<trips, chat>>
              [] fn = "update_trip_plan_status" ->
                   /\ \E i \in PlanIds, st \in {"approved", "rejected"} :
                         /\ plans' = IF fails THEN plans ELSE update_trip_plan_status(plans, i, st)
                         /\ ret' = done(IF i <= Len(plans) THEN "True" ELSE "False")
                   /\ UNCHANGED <<trips, chat>>
              [] fn = "get_trip_plan_by_trip_id" ->
                   /\ \E t \in TripIds : \E g \in get_trip_plan_by_trip_id(plans, t, None) :
                         ret' = [done(IF g.plan = None THEN "None" ELSE "plan")
                                    EXCEPT !.raised = fails \/ g.raised]
                   /\ UNCHANGED <<trips, plans, chat>>
        /\ UNCHANGED <<today, ctx, reqIn, reqOut, tripIn, tripOut, planIn, planOut, accIn, accOut>>

NextAccess ==
    \E fn \in {"create_trip", "create_trip_plan", "save_chat_message", "update_trip_status",
               "update_trip_plan_status", "get_trip_plan_by_trip_id"},
       fails \in BOOLEAN : DataAccess(fn, fails)

SpecAccess == Init /\ [][NextAccess]_vars

\* C25: a data-access call on which the store fails does not raise: it
\* returns a boolean or None
C25_StoreFailureCaught ==
    (ret.op # "init" /\ ret.failed) => /\ ~ret.raised
                                       /\ ret.value \in {"True", "False", "None", "none"}

(***************************************************************************)
(* The AutoGen orchestrator of PHASE_ORCHESTRATOR_MAP, called by several   *)
(* users in turn                                                           *)
(***************************************************************************)
\* the unparseable reply, the complete one and the ones with another budget
PendingReplies ==
    {r \in Replies : ~r.parse \/ [r.data EXCEPT !.budget = BaseData.budget] = BaseData}

NextPending ==
    \E u \in Users, m \in Utterances, r \in PendingReplies :
        AutoGenPlanTrip(u, m, AutoGenExtractions[ctx[u], m, r])

SpecPending == Init /\ [][NextPending]_vars

\* the call that has just returned ended INCOMPLETE
EndedIncomplete(r) == ~r.raised /\ r.result.status = "INCOMPLETE"

C27_SuccessOnlyWhenPlanChanged ==
    (ret.op = "continue_trip_approval" /\ ret.phase \in Orchestrated) =>
        /\ ret.api.success => (ret.plan # None /\ ret.success)
        /\ (~ret.raised /\ ret.plan = None) => ~ret.api.success

(***************************************************************************)
(* Two continue_trip_approval calls of the CrewAI orchestrator on trip 1,  *)
(* one approving and one rejecting, in two threads of the server: each     *)
(* db_utils call is one committed statement, and the statements of the two *)
(* calls interleave                                                        *)
(***************************************************************************)
\* a trip with plans of distinct versions, and both calls about to start;
\* ret.pc is the statement each call is at, ret.plan the plan it has read
InitRace ==
    LET trip == CHOOSE q \in TripRequests :
                    q.trip_startdate = Some(MaxDay - 1) /\ q.trip_enddate = Some(MaxDay)
        Rows == [trip_id : {1}, version : Versions, status : {"draft", "approved", "rejected"}]
    IN  /\ trips \in {update_trip_status(create_trip(<<>>, trip), 1, st) :
                         st \in {"draft", "in_progress", "confirmed"}}
        /\ plans \in {q \in SeqsUpTo(Rows, MaxPlans) :
                         /\ q # <<>>
                         /\ \A i, j \in 1..Len(q) : q[i].version = q[j].version => i = j}
        /\ ret = [op |-> "approvals",
                  pc |-> [d \in {"approved", "rejected"} |-> "get_trip_plan_by_trip_id"],
                  plan |-> [d \in {"approved", "rejected"} |-> None]]
        /\ today = 0 /\ chat = <<>> /\ ctx = [u \in Users |-> <<>>]
        /\ reqIn = None /\ reqOut = Idle
        /\ tripIn = None /\ tripOut = Idle
        /\ planIn = None /\ planOut = Idle
        /\ accIn = None /\ accOut = Idle

\* the next statement of continue_trip_approval(1, decision)
continue_trip_approval(decision) ==
    /\ ret.op = "approvals"
    /\ ret.pc[decision] # "returned"
    /\ CASE ret.pc[decision] = "get_trip_plan_by_trip_id" ->
               /\ \E g \in get_trip_plan_by_trip_id(plans, 1, None) :
                     ret' = [ret EXCEPT !.plan[decision] = g.plan,
                                        !.pc[decision] = IF g.raised \/ g.plan = None
                                                         THEN "returned"
                                                         ELSE "update_trip_plan_status"]
               /\ UNCHANGED <<trips, plans>>
          [] ret.pc[decision] = "update_trip_plan_status" ->
               /\ plans' = update_trip_plan_status(plans, ret.plan[decision][1], decision)
               /\ ret' = [ret EXCEPT !.pc[decision] = "update_trip_status"]
               /\ UNCHANGED trips
          [] ret.pc[decision] = "update_trip_status" ->
               /\ trips' = update_trip_status(trips, 1, IF decision = "approved" THEN "confirmed"
                                                        ELSE "draft")
               /\ ret' = [ret EXCEPT !.pc[decision] = "returned"]
               /\ UNCHANGED plans
    /\ UNCHANGED <<today, chat, ctx, reqIn, reqOut, tripIn, tripOut, planIn, planOut, accIn, accOut>>

NextRace == \E decision \in {"approved", "rejected"} : continue_trip_approval(decision)

SpecRace == InitRace /\ [][NextRace]_vars

\* C28: once both calls have returned, the latest plan of the trip is
\* "approved" exactly when the trip is "confirmed", and "rejected" exactly
\* when the trip is "draft"
C28_PlanAndTripAgree ==
    (ret.op = "approvals" /\ \A d \in DOMAIN ret.pc : ret.pc[d] = "returned") =>
        \A i \in SelectPlan(plans, 1, None) :
            /\ plans[i].status = "approved" <=> trips[1].trip_status = "confirmed"
            /\ plans[i].status = "rejected" <=> trips[1].trip_status = "draft"

\* C29: when plan_trip of the CrewAI or the AutoGen orchestrator returns,
\* every trips row the call created has at least one trip_plans row
C29_CreatedTripHasPlan ==
    [][(PlanTripStep /\ Returned(ret')) =>
          \A t \in (Len(trips) + 1)..Len(trips') :
              \E i \in 1..Len(plans') : plans'[i].trip_id = t]_vars

====
